---- MODULE Spec2Model ----
(***************************************************************************)
(* Progression / economy engine of designer_clicker_bot.                   *)
(*                                                                         *)
(* The repository ships the engine twice: the monolith                     *)
(* src/designer_clicker_bot.py ("mono") and the package src/bot/ ("pkg").  *)
(* The variable impl says which of the two programs is running; every      *)
(* handler is modelled for both.                                           *)
(*                                                                         *)
(* Units.  Percentages and multipliers are Python floats in the source;    *)
(* here they are integers in thousandths (0.10 -> 100, 1.0 -> 1000).       *)
(* round() is Python's round-half-even, computed on the exact rational     *)
(* (RoundDiv); int() of a non-negative float is floor.  Time is in         *)
(* seconds since the start of the run.                                     *)
(*                                                                         *)
(* Scope.  Modelled: orders, clicks, random events, boosts, equipment,     *)
(* team, daily bonus, offline income, achievements, skills and the         *)
(* prestige reset.  Left out: the tutorial, the campaign and the           *)
(* "hell client" quest (their handlers and tables), the rate limiter,      *)
(* message texts and keyboards, and the progress column of                 *)
(* user_achievements.  random.random() and random.choices() are the        *)
(* choice of an outcome in the action; the skill prompt keeps every        *)
(* available skill instead of a random sample of three.  FSM data holds    *)
(* the keys a flow reads, cleared to FsmClear by state.clear().            *)
(***************************************************************************)
EXTENDS Integers, Sequences, FiniteSets, TLC

VARIABLES
    impl,       \* "mono" | "pkg": which program is running
    now,        \* utcnow(), seconds
    user,       \* the User row
    orders,     \* set of UserOrder rows
    nextOrderId,\* next primary key of user_orders
    boosts,     \* boost id -> UserBoost.level (0: no row)
    team,       \* member id -> UserTeam.level (0: no row)
    items,      \* set of owned item codes (UserItem rows)
    equip,      \* slot -> item code or NoItem (UserEquipment rows)
    buffs,      \* sequence of UserBuff rows, in insertion order
    skills,     \* set of skill codes (UserSkill rows)
    prestige,   \* the UserPrestige row
    ach,        \* achievement code -> UserAchievement row (or no row)
    announced,  \* achievement id -> lines notify_new_achievements has sent for it
    log,        \* sequence of EconomyLog rows
    fsm,        \* aiogram FSM state and data of the chat
    refusal,    \* the refusal the last handler answered with, or "none"
    probe       \* inputs and results of the pure-function specifications

vars == <<impl, now, user, orders, nextOrderId, boosts, team, items, equip,
          buffs, skills, prestige, ach, announced, log, fsm, refusal,
                   probe>>

----------------------------------------------------------------------------
(* Bounds of the model *)

MaxOrders == 2
MaxBoostLevel == 3
MaxTeamLevel == 2
MaxLog == 3
MaxEvents == 1

----------------------------------------------------------------------------
(* Program constants *)

MAX_OFFLINE_SECONDS == 12 * 60 * 60
RANDOM_EVENT_CLICK_INTERVAL == 20
SKILL_LEVEL_INTERVAL == 5
DAILY_BONUS_RUB == 100
DAY_SECONDS == 24 * 60 * 60
STUDIO_MIN_LEVEL == 20

None == 0 - 1
NoItem == "none"

----------------------------------------------------------------------------
(* Arithmetic helpers *)

Max(a, b) == IF a >= b THEN a ELSE b

Min(a, b) == IF a <= b THEN a ELSE b

\* Python round(n / d) for d > 0: round half to even.
RoundDiv(n, d) ==
    LET q == n \div d
        r == n % d
    IN  IF 2 * r < d THEN q
        ELSE IF 2 * r > d THEN q + 1
        ELSE IF q % 2 = 0 THEN q ELSE q + 1

RECURSIVE Pow(_, _)
Pow(b, e) == IF e <= 0 THEN 1 ELSE b * Pow(b, e - 1)

RECURSIVE SumOver(_, _)
\* sum of f[x] over x in the finite set S
SumOver(f, S) ==
    IF S = {} THEN 0
    ELSE LET x == CHOOSE y \in S : TRUE IN f[x] + SumOver(f, S \ {x})

----------------------------------------------------------------------------
(* Catalogs (seed data) *)

SEED_ORDERS ==
    << [base_clicks |-> 100,  min_level |-> 1],
       [base_clicks |-> 180,  min_level |-> 1],
       [base_clicks |-> 300,  min_level |-> 2],
       [base_clicks |-> 600,  min_level |-> 3],
       [base_clicks |-> 1200, min_level |-> 5],
       [base_clicks |-> 800,  min_level |-> 4] >>

\* growth as a fraction gnum/gden; step_value in thousandths
SEED_BOOSTS ==
    << [code |-> "cp_plus_1",      type |-> "cp",      base_cost |-> 100,
        gnum |-> 5,  gden |-> 4,  step_value |-> 1000],
       [code |-> "reward_mul_10",  type |-> "reward",  base_cost |-> 300,
        gnum |-> 59, gden |-> 50, step_value |-> 100],
       [code |-> "passive_mul_10", type |-> "passive", base_cost |-> 400,
        gnum |-> 59, gden |-> 50, step_value |-> 100] >>

SEED_TEAM ==
    << [code |-> "junior", base_income_per_min |-> 4,  base_cost |-> 100],
       [code |-> "middle", base_income_per_min |-> 10, base_cost |-> 300],
       [code |-> "senior", base_income_per_min |-> 22, base_cost |-> 800],
       [code |-> "pm",     base_income_per_min |-> 35, base_cost |-> 1200] >>

Item(c, s, t, bt, bv, p, ml) ==
    [code |-> c, slot |-> s, tier |-> t, bonus_type |-> bt, bonus_value |-> bv,
     price |-> p, min_level |-> ml]

\* bonus_value in thousandths
SEED_ITEMS_MONO ==
    << Item("laptop_t1",  "laptop",  1, "cp_pct",         50,   250,  1),
       Item("laptop_t2",  "laptop",  2, "cp_pct",         100,  500,  2),
       Item("laptop_t3",  "laptop",  3, "cp_pct",         150,  900,  3),
       Item("phone_t1",   "phone",   1, "passive_pct",    30,   200,  1),
       Item("phone_t2",   "phone",   2, "passive_pct",    60,   400,  2),
       Item("phone_t3",   "phone",   3, "passive_pct",    100,  750,  3),
       Item("tablet_t1",  "tablet",  1, "req_clicks_pct", 20,   300,  1),
       Item("tablet_t2",  "tablet",  2, "req_clicks_pct", 40,   600,  2),
       Item("tablet_t3",  "tablet",  3, "req_clicks_pct", 60,   950,  3),
       Item("monitor_t1", "monitor", 1, "reward_pct",     40,   350,  1),
       Item("monitor_t2", "monitor", 2, "reward_pct",     80,   700,  2),
       Item("monitor_t3", "monitor", 3, "reward_pct",     120,  1050, 3),
       Item("chair_t1",   "chair",   1, "ratelimit_plus", 0,    150,  1),
       Item("chair_t2",   "chair",   2, "ratelimit_plus", 1000, 400,  2),
       Item("chair_t3",   "chair",   3, "ratelimit_plus", 1000, 600,  3),
       Item("chair_t4",   "chair",   4, "ratelimit_plus", 2000, 1000, 4),
       Item("client_contract", "charm", 1, "req_clicks_pct", 30, 0,   2) >>

SEED_ITEMS_PKG ==
    << Item("laptop_t1",  "laptop",  1, "cp_pct",         50,   250, 1),
       Item("laptop_t2",  "laptop",  2, "cp_pct",         100,  500, 2),
       Item("laptop_t3",  "laptop",  3, "cp_pct",         150,  900, 3),
       Item("phone_t1",   "phone",   1, "passive_pct",    30,   200, 1),
       Item("phone_t2",   "phone",   2, "passive_pct",    60,   400, 2),
       Item("phone_t3",   "phone",   3, "passive_pct",    100,  700, 3),
       Item("tablet_t1",  "tablet",  1, "req_clicks_pct", 50,   220, 1),
       Item("tablet_t2",  "tablet",  2, "req_clicks_pct", 90,   480, 2),
       Item("monitor_t1", "monitor", 1, "reward_pct",     50,   260, 1),
       Item("monitor_t2", "monitor", 2, "reward_pct",     90,   520, 2),
       Item("chair_t1",   "chair",   1, "ratelimit_plus", 1000, 300, 1),
       Item("chair_t2",   "chair",   2, "ratelimit_plus", 2000, 600, 2) >>

SeedItems(i) == IF i = "mono" THEN SEED_ITEMS_MONO ELSE SEED_ITEMS_PKG

ItemCodes(i) == {SeedItems(i)[k].code : k \in DOMAIN SeedItems(i)}

ItemByCode(i, c) ==
    LET k == CHOOSE j \in DOMAIN SeedItems(i) : SeedItems(i)[j].code = c
    IN  SeedItems(i)[k]

SLOTS_MONO == <<"laptop", "phone", "tablet", "monitor", "chair", "charm">>

EQUIPMENT_SLOTS == <<"laptop", "phone", "tablet", "monitor", "chair">>

Slots(i) == IF i = "mono" THEN SLOTS_MONO ELSE EQUIPMENT_SLOTS

SlotSet(i) == {Slots(i)[k] : k \in DOMAIN Slots(i)}

Eff(cpa, cpp, rw, ps, rq, xpp) ==
    [cp_add |-> cpa, cp_pct |-> cpp, reward_pct |-> rw, passive_pct |-> ps,
     req_clicks_pct |-> rq, xp_pct |-> xpp]

NoEff == Eff(0, 0, 0, 0, 0, 0)

Event(c, k, d, ml, bal, xp, hasBuff, payload) ==
    [code |-> c, kind |-> k, duration_sec |-> d, min_level |-> ml,
     balance |-> bal, xp |-> xp, buff |-> hasBuff, payload |-> payload]

\* SEED_RANDOM_EVENTS joined with RANDOM_EVENT_EFFECTS (balance / xp: 0 = key absent)
SEED_RANDOM_EVENTS ==
    << Event("idea_spark",      "bonus",   None, 1, 200,  0,    FALSE, NoEff),
       Event("coffee_spill",    "penalty", None, 1, -150, 0,    FALSE, NoEff),
       Event("viral_post",      "buff",    600,  3, 0,    0,    TRUE,  Eff(0, 0, 100, 0, 0, 0)),
       Event("client_tip",      "bonus",   None, 2, 350,  0,    FALSE, NoEff),
       Event("deadline_crunch", "buff",    300,  4, 0,    0,    TRUE,  Eff(0, 0, -100, 0, 0, 0)),
       Event("agency_feature",  "buff",    900,  5, 0,    0,    TRUE,  Eff(0, 0, 0, 50, 0, 0)),
       Event("software_crash",  "penalty", None, 3, 0,    -100, FALSE, NoEff),
       Event("mentor_call",     "bonus",   None, 2, 0,    150,  FALSE, NoEff),
       Event("perfect_flow",    "buff",    600,  4, 0,    0,    TRUE,  Eff(0, 150, 0, 0, 0, 0)) >>

EventCodes == {SEED_RANDOM_EVENTS[k].code : k \in DOMAIN SEED_RANDOM_EVENTS}

EventByCode(c) ==
    LET k == CHOOSE j \in DOMAIN SEED_RANDOM_EVENTS : SEED_RANDOM_EVENTS[j].code = c
    IN  SEED_RANDOM_EVENTS[k]

SEED_SKILLS ==
    << [code |-> "web_master",        effect |-> Eff(0, 0, 50, 0, 0, 0),  min_level |-> 5],
       [code |-> "brand_evangelist",  effect |-> Eff(0, 0, 30, 20, 0, 0), min_level |-> 10],
       [code |-> "art_director",      effect |-> Eff(0, 0, 0, 50, 0, 0),  min_level |-> 5],
       [code |-> "perfectionist",     effect |-> Eff(1, 0, 0, 0, 0, 0),   min_level |-> 5],
       [code |-> "speed_runner",      effect |-> Eff(0, 0, 0, 0, 30, 0),  min_level |-> 10],
       [code |-> "team_leader",       effect |-> Eff(0, 0, 0, 40, 0, 0),  min_level |-> 15],
       [code |-> "sales_guru",        effect |-> Eff(0, 0, 60, 0, 0, 0),  min_level |-> 15],
       [code |-> "ui_alchemist",      effect |-> Eff(0, 50, 0, 0, 0, 0),  min_level |-> 10],
       [code |-> "automation_ninja",  effect |-> Eff(1, 0, 0, 30, 0, 0),  min_level |-> 15],
       [code |-> "brand_storyteller", effect |-> Eff(0, 0, 40, 0, 0, 50), min_level |-> 20] >>

SkillCodes == {SEED_SKILLS[k].code : k \in DOMAIN SEED_SKILLS}

SkillByCode(c) ==
    LET k == CHOOSE j \in DOMAIN SEED_SKILLS : SEED_SKILLS[j].code = c
    IN  SEED_SKILLS[k]

SEED_ACHIEVEMENTS ==
    << [code |-> "click_100",    trigger |-> "clicks",         threshold |-> 100],
       [code |-> "click_1000",   trigger |-> "clicks",         threshold |-> 1000],
       [code |-> "order_first",  trigger |-> "orders",         threshold |-> 1],
       [code |-> "order_20",     trigger |-> "orders",         threshold |-> 20],
       [code |-> "level_5",      trigger |-> "level",          threshold |-> 5],
       [code |-> "level_10",     trigger |-> "level",          threshold |-> 10],
       [code |-> "balance_5000", trigger |-> "balance",        threshold |-> 5000],
       [code |-> "passive_2000", trigger |-> "passive_income", threshold |-> 2000],
       [code |-> "team_3",       trigger |-> "team",           threshold |-> 3],
       [code |-> "wardrobe_5",   trigger |-> "items",          threshold |-> 5] >>

AchIds == DOMAIN SEED_ACHIEVEMENTS

----------------------------------------------------------------------------
(* Formula library *)

xp_to_level(n) == 100 * n * n

\* a price that does not grow with the level
FlatCost(base, gnum, gden, n) == base

\* round(base * growth ** (n - 1)), growth = gnum / gden
upgrade_cost(base, gnum, gden, n) ==
    RoundDiv(base * Pow(gnum, n - 1), Pow(gden, n - 1))

\* int(round(base_cost * 1.22 ** lvl)), 1.22 = 61 / 50
team_upgrade_cost(base_cost, lvl) ==
    RoundDiv(base_cost * Pow(61, lvl), Pow(50, lvl))

required_clicks(base_clicks, level) ==
    RoundDiv(base_clicks * (100 + 15 * (level \div 5)), 100)

\* reward_mul in thousandths: round(req * 0.6 * reward_mul)
base_reward_from_required(req, reward_mul) ==
    RoundDiv(req * 6 * reward_mul, 10000)

\* the reduced requirement without max(1, ...) (not the code)
SnapshotNoFloor(base_clicks, user_level, req_clicks_pct) ==
    RoundDiv(required_clicks(base_clicks, user_level) * (1000 - req_clicks_pct), 1000)

\* req_clicks_pct in thousandths: max(1, int(round(base_req * (1 - req_clicks_pct))))
snapshot_required_clicks(base_clicks, user_level, req_clicks_pct) ==
    LET base_req == required_clicks(base_clicks, user_level)
        reduced  == RoundDiv(base_req * (1000 - req_clicks_pct), 1000)
    IN  Max(1, reduced)

finish_order_reward(required_clicks_snapshot, reward_snapshot_mul) ==
    LET mul == Max(1000, reward_snapshot_mul)
    IN  base_reward_from_required(required_clicks_snapshot, mul)

\* bot/services/economy.py: no floor on the multiplier
pkg_finish_order_reward(required_clicks_snapshot, reward_multiplier) ==
    base_reward_from_required(required_clicks_snapshot, reward_multiplier)

\* per-minute income in quarters of a currency unit:
\* base * (1 + 0.25 * (level - 1)) = base * (level + 3) / 4
team_income_per_min(base_per_min, level) ==
    IF level <= 0 THEN 0 ELSE base_per_min * (level + 3)

----------------------------------------------------------------------------
(* The database rows of the player, bundled so that services can be        *)
(* written as functions from store to store.                                *)

Db == [user |-> user, orders |-> orders, nextOrderId |-> nextOrderId,
       boosts |-> boosts, team |-> team, items |-> items, equip |-> equip,
       buffs |-> buffs, skills |-> skills, prestige |-> prestige,
       ach |-> ach, announced |-> announced, log |-> log]

Commit(d) ==
    /\ user' = d.user
    /\ orders' = d.orders
    /\ nextOrderId' = d.nextOrderId
    /\ boosts' = d.boosts
    /\ team' = d.team
    /\ items' = d.items
    /\ equip' = d.equip
    /\ buffs' = d.buffs
    /\ skills' = d.skills
    /\ prestige' = d.prestige
    /\ ach' = d.ach
    /\ announced' = d.announced
    /\ log' = d.log

LogRow(type, amount, sec, sec_raw) ==
    [type |-> type, amount |-> amount, sec |-> sec, sec_raw |-> sec_raw]

AddLog(d, type, amount) ==
    [d EXCEPT !.log = Append(@, LogRow(type, amount, None, None))]

BoostIds == DOMAIN SEED_BOOSTS

MemberIds == DOMAIN SEED_TEAM

----------------------------------------------------------------------------
(* Stat aggregator *)

BoostSum(d, btype) ==
    SumOver([b \in BoostIds |->
                IF SEED_BOOSTS[b].type = btype /\ d.boosts[b] > 0
                THEN d.boosts[b] * SEED_BOOSTS[b].step_value ELSE 0],
            BoostIds)

\* for btype "cp" the code adds int(lvl * step) per row
BoostCpAdd(d) ==
    SumOver([b \in BoostIds |->
                IF SEED_BOOSTS[b].type = "cp" /\ d.boosts[b] > 0
                THEN (d.boosts[b] * SEED_BOOSTS[b].step_value) \div 1000 ELSE 0],
            BoostIds)

EquipSum(i, d, btype) ==
    SumOver([sl \in SlotSet(i) |->
                IF d.equip[sl] # NoItem /\ ItemByCode(i, d.equip[sl]).bonus_type = btype
                THEN ItemByCode(i, d.equip[sl]).bonus_value ELSE 0],
            SlotSet(i))

\* a buff that would still count at the instant it expires
BuffLiveAtExpiry(b, t) == ~(b.expires_at # None /\ b.expires_at < t)

\* a buff counts unless "expires and expires <= now"
BuffLive(b, t) == ~(b.expires_at # None /\ b.expires_at <= t)

LiveBuffs(d, t) == {k \in DOMAIN d.buffs : BuffLive(d.buffs[k], t)}

BuffSum(d, t, f) ==
    SumOver([k \in LiveBuffs(d, t) |-> d.buffs[k].payload[f]], LiveBuffs(d, t))

SkillSum(d, f) ==
    SumOver([c \in d.skills |-> SkillByCode(c).effect[f]], d.skills)

PrestigePct(d) == Max(0, d.prestige.reputation * 10)

StatsRecord(cp, rw, ps, rq, rl, xpp, pp) ==
    [cp |-> cp, reward_mul_total |-> rw, passive_mul_total |-> ps,
     req_clicks_pct |-> rq, ratelimit_plus |-> rl, xp_pct |-> xpp,
     prestige_pct |-> pp]

ClampCpNone(cp) == cp

\* "cp": max(1, cp)
ClampCp(cp) == Max(1, cp)

mono_get_user_stats(d, t) ==
    LET reward_add  == BoostSum(d, "reward")
        passive_add == BoostSum(d, "passive")
        cp_add == BoostCpAdd(d) + BuffSum(d, t, "cp_add") + SkillSum(d, "cp_add")
        cp_pct == EquipSum("mono", d, "cp_pct") + BuffSum(d, t, "cp_pct")
                  + SkillSum(d, "cp_pct") + PrestigePct(d)
        passive_pct == EquipSum("mono", d, "passive_pct") + BuffSum(d, t, "passive_pct")
                  + SkillSum(d, "passive_pct") + PrestigePct(d)
        req_clicks_pct == EquipSum("mono", d, "req_clicks_pct")
                  + BuffSum(d, t, "req_clicks_pct") + SkillSum(d, "req_clicks_pct")
        reward_pct == EquipSum("mono", d, "reward_pct") + BuffSum(d, t, "reward_pct")
                  + SkillSum(d, "reward_pct") + PrestigePct(d)
        ratelimit_plus == EquipSum("mono", d, "ratelimit_plus") \div 1000
        xp_pct == BuffSum(d, t, "xp_pct") + SkillSum(d, "xp_pct")
        cp     == RoundDiv((d.user.cp_base + cp_add) * (1000 + cp_pct), 1000)
        reward_mul_total  == 1000 + d.user.reward_mul + reward_add + reward_pct
        passive_mul_total == 1000 + d.user.passive_mul + passive_add + passive_pct
    IN  StatsRecord(ClampCp(cp), Max(0, reward_mul_total), Max(0, passive_mul_total),
                    Max(0, req_clicks_pct), ratelimit_plus, Max(0, xp_pct),
                    PrestigePct(d))

\* bot/services/users.py: boosts and equipped items only
pkg_get_user_stats(d, t) ==
    LET cp_add      == BoostCpAdd(d)
        reward_add  == BoostSum(d, "reward")
        passive_add == BoostSum(d, "passive")
        cp_pct      == EquipSum("pkg", d, "cp_pct")
        passive_pct == EquipSum("pkg", d, "passive_pct")
        req_clicks_pct == EquipSum("pkg", d, "req_clicks_pct")
        reward_pct  == EquipSum("pkg", d, "reward_pct")
        ratelimit_plus == EquipSum("pkg", d, "ratelimit_plus") \div 1000
        cp == RoundDiv((d.user.cp_base + cp_add) * (1000 + cp_pct), 1000)
    IN  StatsRecord(ClampCp(cp),
                    Max(0, 1000 + d.user.reward_mul + reward_add + reward_pct),
                    Max(0, 1000 + d.user.passive_mul + passive_add + passive_pct),
                    Max(0, req_clicks_pct), ratelimit_plus, 0, 0)

get_user_stats(i, d, t) ==
    IF i = "mono" THEN mono_get_user_stats(d, t) ELSE pkg_get_user_stats(d, t)

\* side effect of get_user_stats in the monolith: expired buffs are deleted
purge_expired_buffs(i, d, t) ==
    IF i = "mono"
    THEN [d EXCEPT !.buffs = SelectSeq(@, LAMBDA b : BuffLive(b, t))]
    ELSE d

----------------------------------------------------------------------------
(* Passive income accrual *)

\* sum of team_income_per_min over the UserTeam rows, in quarters per minute
TeamPerMinQ(d) ==
    SumOver([m \in MemberIds |->
                IF d.team[m] > 0
                THEN team_income_per_min(SEED_TEAM[m].base_income_per_min, d.team[m])
                ELSE 0],
            MemberIds)

\* floor(perq * mul * delta / (4 * 60 * 1000)), divided in two exact stages:
\* the amount in exact arithmetic
ExactAmount(perq, passive_mul_total, delta) ==
    LET g  == perq * passive_mul_total
        y  == g * (delta \div 600) + (g * (delta % 600)) \div 600
    IN  y \div 400

RECURSIVE FloorLog2(_, _)
\* the largest a with 2^a <= num / den
FloorLog2(num, den) ==
    IF num >= 2 * den THEN 1 + FloorLog2(num, 2 * den)
    ELSE IF num >= den THEN 0
    ELSE FloorLog2(2 * num, den) - 1

RECURSIVE Pow2Mod(_, _)
\* 2^e modulo n
Pow2Mod(e, n) == IF e <= 0 THEN 1 % n ELSE (2 * Pow2Mod(e - 1, n)) % n

\* the double per_min / 60.0 is m / 2^e with m the 53-bit integer nearest to
\* perq * 2^e / 240; RateDeficit is perq * 2^e - 240 * m when the double lies
\* below perq / 240, and 0 when it does not
RateDeficit(perq) ==
    LET r0 == (perq * Pow2Mod(52 - FloorLog2(perq, 240), 240)) % 240
    IN  IF r0 > 120 THEN 0 ELSE r0

\* whether the double product (m / 2^e) * delta, whose exact value lies
\* RateDeficit * delta / (240 * 2^e) below the integer n, is rounded to n:
\* it is when it lies within half a spacing of the doubles below n
RoundsUpTo(n, perq, delta) ==
    LET k == FloorLog2(n, 1) - FloorLog2(perq, 240) - 1
               - (IF n = Pow(2, FloorLog2(n, 1)) THEN 1 ELSE 0)
    IN  IF k >= 0 THEN RateDeficit(perq) * delta <= 240 * Pow(2, k)
        ELSE RateDeficit(perq) * delta * Pow(2, 0 - k) <= 240

\* int((per_min / 60.0) * delta) in double arithmetic, for per_min = perq / 4
\* and a whole number of seconds: the exact quotient, except that a product
\* whose exact value is an integer n can come out just below n
FloatAmount(perq, delta) ==
    IF perq = 0 \/ delta = 0 \/ (perq * delta) % 240 # 0
    THEN (perq * delta) \div 240
    ELSE IF RoundsUpTo((perq * delta) \div 240, perq, delta)
    THEN (perq * delta) \div 240
    ELSE (perq * delta) \div 240 - 1

\* int(rate * delta) with rate = (per_min / 60.0) * passive_mul_total.  With
\* passive_mul_total = 1.0 the doubles are followed exactly; with another
\* multiplier the amount is the one of exact arithmetic
PassiveAmount(perq, passive_mul_total, delta) ==
    IF passive_mul_total = 1000 THEN FloatAmount(perq, delta)
    ELSE ExactAmount(perq, passive_mul_total, delta)

\* delta = min(delta_raw, MAX_OFFLINE_SECONDS)
CappedDelta(delta_raw) == Min(delta_raw, MAX_OFFLINE_SECONDS)

LastSeenOnlyWhenPaid(t, old, amount) == IF amount > 0 THEN t ELSE old

\* user.last_seen = now, whatever the amount
NewLastSeen(t, old, amount) == t

\* the writes of apply_offline_income (monolith) once the amount is known
MonoCredit(d1, t, delta_raw, amount) ==
    IF amount > 0
    THEN [d |-> [d1 EXCEPT
                   !.user.last_seen = NewLastSeen(t, @, amount),
                   !.user.balance = @ + amount,
                   !.user.passive_income_collected = @ + amount,
                   !.log = Append(@, LogRow("passive", amount,
                                            CappedDelta(delta_raw), delta_raw))],
          gained |-> amount]
    ELSE [d |-> [d1 EXCEPT !.user.last_seen = NewLastSeen(t, @, amount)],
          gained |-> 0]

mono_apply_offline_income(d, t) ==
    MonoCredit(purge_expired_buffs("mono", d, t), t, Max(0, t - d.user.last_seen),
               PassiveAmount(TeamPerMinQ(d), mono_get_user_stats(d, t).passive_mul_total,
                             CappedDelta(Max(0, t - d.user.last_seen))))

\* the writes of apply_offline_income (package): nothing is added to
\* passive_income_collected
PkgCredit(d, t, delta, amount) ==
    IF amount > 0
    THEN [d |-> [d EXCEPT
                   !.user.last_seen = NewLastSeen(t, @, amount),
                   !.user.balance = @ + amount,
                   !.log = Append(@, LogRow("passive", amount, delta, None))],
          gained |-> amount]
    ELSE [d |-> [d EXCEPT !.user.last_seen = NewLastSeen(t, @, amount)],
          gained |-> 0]

\* bot/services/users.py: the interval is not capped
pkg_apply_offline_income(d, t) ==
    PkgCredit(d, t, Max(0, t - d.user.last_seen),
              PassiveAmount(TeamPerMinQ(d), pkg_get_user_stats(d, t).passive_mul_total,
                            Max(0, t - d.user.last_seen)))

apply_offline_income(i, d, t) ==
    IF i = "mono" THEN mono_apply_offline_income(d, t)
    ELSE pkg_apply_offline_income(d, t)

----------------------------------------------------------------------------
(* Progression ledger *)

\* a single "if" in place of the loop
LevelUpOnce(lvl, xp) ==
    IF xp >= xp_to_level(lvl) THEN <<lvl + 1, xp - xp_to_level(lvl)>> ELSE <<lvl, xp>>

RECURSIVE LevelUp(_, _)
\* the while loop of add_xp_and_levelup: <<level, xp>> after it
LevelUp(lvl, xp) ==
    IF xp >= xp_to_level(lvl) THEN LevelUp(lvl + 1, xp - xp_to_level(lvl))
    ELSE <<lvl, xp>>

add_xp_and_levelup(u, xp_gain) ==
    LET r == LevelUp(u.level, u.xp + xp_gain)
    IN  [u EXCEPT !.level = r[1], !.xp = r[2]]

XpPenaltyNoFloor(xp, xp_delta) == xp + xp_delta

\* user.xp = max(0, user.xp + xp_delta)
XpPenalty(xp, xp_delta) == Max(0, xp + xp_delta)

BalanceNoFloor(balance, delta) == balance + delta

\* user.balance = max(0, user.balance + delta)
BalanceAfterEvent(balance, delta) == Max(0, balance + delta)

----------------------------------------------------------------------------
(* Achievement evaluator *)

NoAch == [row |-> FALSE, unlocked_at |-> None, notified |-> FALSE]

get_achievement_progress_value(d, trigger) ==
    CASE trigger = "clicks"         -> d.user.clicks_total
      [] trigger = "orders"         -> d.user.orders_completed
      [] trigger = "level"          -> d.user.level
      [] trigger = "balance"        -> d.user.balance
      [] trigger = "passive_income" -> d.user.passive_income_collected
      [] trigger = "team"           -> Cardinality({m \in MemberIds : d.team[m] > 0})
      [] trigger = "items"          -> Cardinality(d.items)
      [] trigger = "daily"          -> d.user.daily_bonus_claims
      [] OTHER                      -> 0

StampAlways(old, t) == t

\* if ua.unlocked_at is None: ua.unlocked_at = utcnow()
Stamp(old, t) == IF old = None THEN t ELSE old

\* one iteration of the loop of evaluate_achievements (the progress column of
\* the row is not modelled: nothing reads it back)
EvalOne(ua, met, t) ==
    IF met
    THEN IF ~ua.row
         THEN [row |-> TRUE, unlocked_at |-> t, notified |-> FALSE]
         ELSE [ua EXCEPT !.unlocked_at = Stamp(ua.unlocked_at, t)]
    ELSE IF ~ua.row
         THEN [row |-> TRUE, unlocked_at |-> None, notified |-> FALSE]
         ELSE ua

AchMet(d, a) ==
    get_achievement_progress_value(d, SEED_ACHIEVEMENTS[a].trigger)
        >= SEED_ACHIEVEMENTS[a].threshold

\* select(Achievement) ... order_by(Achievement.id)
AchievementsById == [k \in 1..Len(SEED_ACHIEVEMENTS) |-> k]

\* c = [d, unlocked]: the store and the handler's list of achievements to
\* announce (a Python list: one entry per append)
evaluate_achievements(c, t, triggers) ==
    LET d    == c.d
        hit  == {a \in AchIds : SEED_ACHIEVEMENTS[a].trigger \in triggers}
        newA == [a \in AchIds |->
                    IF a \in hit THEN EvalOne(d.ach[a], AchMet(d, a), t) ELSE d.ach[a]]
    IN  [c EXCEPT !.d.ach = newA,
                  !.unlocked = @ \o SelectSeq(AchievementsById,
                                              LAMBDA a : /\ a \in hit
                                                         /\ AchMet(d, a)
                                                         /\ ~newA[a].notified)]

\* the lines of the message for achievement a: one per entry of the list
Lines(unlocked, a) == Cardinality({k \in DOMAIN unlocked : unlocked[k] = a})

\* notify_new_achievements: one line per entry of the list, and every listed
\* row gets notified = True
notify_new_achievements(c) ==
    [c EXCEPT !.d.ach = [a \in AchIds |->
                            IF Lines(c.unlocked, a) > 0
                            THEN [@[a] EXCEPT !.notified = TRUE]
                            ELSE @[a]],
              !.d.announced = [a \in AchIds |-> @[a] + Lines(c.unlocked, a)]]

\* process_offline_income, given the result r of apply_offline_income
OfflineAchievements(c, r, t) ==
    IF r.gained > 0
    THEN evaluate_achievements([c EXCEPT !.d = r.d], t, {"passive_income", "balance"})
    ELSE [c EXCEPT !.d = r.d]

process_offline_income(c, t) ==
    OfflineAchievements(c, mono_apply_offline_income(c.d, t), t)

Ctx(d) == [d |-> d, unlocked |-> <<>>, refusal |-> "none"]

\* the handler answers with a refusal text
Refuse(c, r) == [c EXCEPT !.refusal = r]

----------------------------------------------------------------------------
(* Orders *)

NoActiveCheck(d) == TRUE

\* no UserOrder row with finished = false and canceled = false
ensure_no_active_order(d) ==
    ~\E o \in d.orders : ~o.finished /\ ~o.canceled

ActiveOrders(d) == {o \in d.orders : ~o.finished /\ ~o.canceled}

\* session.scalar(...): the first matching row
get_active_order(d) ==
    CHOOSE o \in ActiveOrders(d) : \A p \in ActiveOrders(d) : o.id <= p.id

HasActive(d) == ActiveOrders(d) # {}

UpdateOrder(d, o, o2) == [d EXCEPT !.orders = (@ \ {o}) \cup {o2}]

NewUserOrder(id, order_id, req, mul) ==
    [id |-> id, order_id |-> order_id, progress_clicks |-> 0,
     required_clicks |-> req, finished |-> FALSE, canceled |-> FALSE,
     reward_snapshot_mul |-> mul]

ProgressNoClamp(required, progress, cp) == progress + cp

\* a click that would not move the progress
ProgressKept(required, progress, cp) == progress

\* active.progress_clicks = min(active.required_clicks, active.progress_clicks + cp)
NextProgress(required, progress, cp) == Min(required, progress + cp)

\* orders offered on page 0: at most 5 rows with min_level <= level; the
\* monolith orders them by (min_level, id), the package by id
RECURSIVE FirstFive(_, _)
FirstFive(ids, n) ==
    IF ids = <<>> \/ n = 0 THEN {} ELSE {Head(ids)} \cup FirstFive(Tail(ids), n - 1)

OrdersByLevel == <<1, 2, 3, 4, 6, 5>>

OrdersById == <<1, 2, 3, 4, 5, 6>>

PageOrderIds(i, level) ==
    LET all == SelectSeq(IF i = "mono" THEN OrdersByLevel ELSE OrdersById,
                         LAMBDA k : SEED_ORDERS[k].min_level <= level)
    IN  FirstFive(all, 5)

----------------------------------------------------------------------------
(* Random events *)

EligibleEvents(level) == {c \in EventCodes : EventByCode(c).min_level <= level}

EventLogType(delta) == IF delta >= 0 THEN "event_bonus" ELSE "event_penalty"

\* a penalty that takes a level when the XP would fall below zero (not the code)
PenaltyTakesLevel(u, xp_delta) ==
    IF u.xp + xp_delta < 0 /\ u.level > 1
    THEN [u EXCEPT !.level = @ - 1, !.xp = 0]
    ELSE [u EXCEPT !.xp = XpPenalty(@, xp_delta)]

\* the else branch of apply_random_event for a negative "xp" effect: only
\* user.xp is assigned
xp_penalty(u, xp_delta) == [u EXCEPT !.xp = XpPenalty(@, xp_delta)]

apply_random_event(d, code, t) ==
    LET ev == EventByCode(code)
        d1 == IF ev.balance # 0
              THEN AddLog([d EXCEPT !.user.balance = BalanceAfterEvent(@, ev.balance)],
                          EventLogType(ev.balance), ev.balance)
              ELSE d
        d2 == IF ev.xp # 0
              THEN AddLog([d1 EXCEPT !.user =
                              IF ev.xp >= 0 THEN add_xp_and_levelup(@, ev.xp)
                              ELSE xp_penalty(@, ev.xp)],
                          EventLogType(ev.xp), 0)
              ELSE d1
        d3 == IF ev.buff
              THEN AddLog([d2 EXCEPT !.buffs =
                              Append(@, [code |-> ev.code,
                                         expires_at |-> t + ev.duration_sec,
                                         payload |-> ev.payload])],
                          "event_buff", 0)
              ELSE d2
    IN  d3

\* the roll of trigger_random_event: "none" when random.random() > probability
trigger_random_event(d, code, t) ==
    IF code = "none" THEN d ELSE apply_random_event(d, code, t)

IsEventRow(r) == r.type \in {"event_bonus", "event_penalty", "event_buff"}

EventRows(d) == Cardinality({k \in DOMAIN d.log : IsEventRow(d.log[k])})

\* what a roll can give: nothing, or any event the level allows (the model
\* lets at most MaxEvents events happen in a run)
\* the draws of pick_random_event the model follows
EventChoices == {"coffee_spill", "software_crash", "deadline_crunch"}

EventOutcomes(d) ==
    {"none"} \cup (IF EventRows(d) < MaxEvents
                     THEN EligibleEvents(d.user.level) \cap EventChoices ELSE {})

----------------------------------------------------------------------------
(* FSM of the chat.  A handler that enters a flow keeps, of the data, only  *)
(* the keys that flow reads; the keys of other flows are never read there. *)

FsmClear ==
    [state |-> "none", order_ids |-> {}, order_id |-> None, req |-> None,
     boost_id |-> None, item_ids |-> {}, item_code |-> NoItem,
     member_ids |-> {}, member_id |-> None, gain |-> None, skill_codes |-> {}]

----------------------------------------------------------------------------
(* Initial states: an established player of each program.  NewUser is the   *)
(* row the registration code inserts; the initial players are that row      *)
(* after earlier play.                                                      *)

NewUser ==
    [balance |-> 200, cp_base |-> 1, reward_mul |-> 0, passive_mul |-> 0,
     level |-> 1, xp |-> 0, last_seen |-> 0, daily_bonus_at |-> None,
     orders_completed |-> 0, clicks_total |-> 0,
     passive_income_collected |-> 0, daily_bonus_claims |-> 0]

NoBoosts == [b \in BoostIds |-> 0]

NoTeam == [m \in MemberIds |-> 0]

NoEquip(i) == [sl \in SlotSet(i) |-> NoItem]

NoAchievements == [a \in AchIds |-> NoAch]

NoneAnnounced == [a \in AchIds |-> 0]

Instants == {424800}

InitCommon ==
    /\ now = 0
    /\ orders = {}
    /\ nextOrderId = 1
    /\ buffs = <<>>
    /\ log = <<>>
    /\ fsm = FsmClear
    /\ refusal = "none"
    /\ probe = None

\* a monolith player one order away from level 20, after earlier resets
VeteranUser ==
    [NewUser EXCEPT !.balance = 120, !.level = 19, !.xp = 36090,
                    !.orders_completed = 40, !.clicks_total = 6000]

VeteranAch ==
    [a \in AchIds |->
        IF SEED_ACHIEVEMENTS[a].code \in
               {"click_100", "click_1000", "order_first", "order_20",
                "level_5", "level_10"}
        THEN [row |-> TRUE, unlocked_at |-> 0, notified |-> TRUE]
        ELSE [row |-> TRUE, unlocked_at |-> None, notified |-> FALSE]]

InitVeteran ==
    /\ impl = "mono"
    /\ user = VeteranUser
    /\ boosts = NoBoosts
    /\ team = NoTeam
    /\ items = {"laptop_t1"}
    /\ equip = [NoEquip("mono") EXCEPT !["laptop"] = "laptop_t1"]
    /\ skills = {"perfectionist"}
    /\ prestige = [reputation |-> 4900, resets |-> 12]
    /\ ach = VeteranAch
    /\ announced = [a \in AchIds |-> IF VeteranAch[a].notified THEN 1 ELSE 0]
    /\ InitCommon

\* a package player with some upgrades
InitRegular ==
    /\ impl = "pkg"
    /\ user = [NewUser EXCEPT !.balance = 500, !.level = 3, !.xp = 120]
    /\ boosts = [b \in BoostIds |-> IF b = 1 THEN 59 ELSE 0]
    /\ team = NoTeam
    /\ items = {"monitor_t1"}
    /\ equip = [NoEquip("pkg") EXCEPT !["monitor"] = "monitor_t1"]
    /\ skills = {}
    /\ prestige = [reputation |-> 0, resets |-> 0]
    /\ ach = NoAchievements
    /\ announced = NoneAnnounced
    /\ InitCommon

Init == InitVeteran \/ InitRegular

----------------------------------------------------------------------------
(* Inputs of the model: what the player picks from the menus *)

LogRoom == Len(log) < MaxLog

OrderChoices == {1}

BoostChoices == {2}

ItemChoices == {"phone_t1"}

MemberChoices == {1}

SkillChoices == {"brand_storyteller"}

\* the player comes back at one of the later instants
Tick ==
    /\ \E t \in Instants : t > now /\ now' = t
    /\ UNCHANGED <<impl, user, orders, nextOrderId, boosts, team, items, equip,
                   buffs, skills, prestige, ach, announced, log, fsm, refusal,
                   probe>>

Finish(c, f) ==
    /\ Commit(c.d)
    /\ fsm' = f
    /\ refusal' = c.refusal
    /\ UNCHANGED <<impl, now, probe>>

\* the session every handler of the monolith opens around its work: passive
\* income first
MonoSession == process_offline_income(Ctx(Db), now)

\* the session a render_* helper of the monolith opens on the store d
MonoRender(d) == notify_new_achievements(process_offline_income(Ctx(d), now))

\* ensure_user (package) for a known player: passive income
PkgEnsureUser(d) == pkg_apply_offline_income(d, now).d

\* back_to_menu (monolith) / cmd_start for a known player (package):
\* passive income only
back_to_menu ==
    /\ LogRoom
    /\ \/ impl = "mono" /\ Finish(MonoRender(Db), fsm)
       \/ impl = "pkg" /\ Finish(Ctx(PkgEnsureUser(Db)), fsm)

\* orders_root and _render_orders_page
orders_root ==
    /\ LogRoom
    /\ \/ /\ impl = "mono"
          /\ \E c \in {MonoRender(Db)} :
                Finish(c, [FsmClear EXCEPT !.state = "orders.browsing",
                                           !.order_ids = PageOrderIds("mono", c.d.user.level)])
       \/ /\ impl = "pkg"
          /\ \E d \in {PkgEnsureUser(Db)} :
                Finish(Ctx(d), [FsmClear EXCEPT !.state = "orders.browsing",
                                                !.order_ids = PageOrderIds("pkg", d.user.level)])

\* choose_order (monolith): no passive income; on an active order the state stays
mono_choose_order(order_id) ==
    IF ~ensure_no_active_order(Db)
    THEN Finish(Refuse(Ctx(Db), "ORDER_ALREADY"), fsm)
    ELSE Finish(Ctx(purge_expired_buffs("mono", Db, now)),
                [fsm EXCEPT !.state = "orders.confirm", !.order_id = order_id,
                            !.req = snapshot_required_clicks(
                                        SEED_ORDERS[order_id].base_clicks, user.level,
                                        mono_get_user_stats(Db, now).req_clicks_pct)])

\* orders_choose (package): ensure_user first; on an active order the state is cleared
pkg_orders_choose(order_id) ==
    \E d \in {PkgEnsureUser(Db)} :
        IF ~ensure_no_active_order(d)
        THEN Finish(Refuse(Ctx(d), "ORDER_ALREADY"), FsmClear)
        ELSE Finish(Ctx(d),
                    [fsm EXCEPT !.state = "orders.confirm", !.order_id = order_id,
                                !.req = snapshot_required_clicks(
                                            SEED_ORDERS[order_id].base_clicks, d.user.level,
                                            pkg_get_user_stats(d, now).req_clicks_pct)])

choose_order ==
    /\ LogRoom
    /\ fsm.state = "orders.browsing"
    /\ \E order_id \in fsm.order_ids \cap OrderChoices :
          \/ impl = "mono" /\ mono_choose_order(order_id)
          \/ impl = "pkg" /\ pkg_orders_choose(order_id)

\* take_order: the row gets the required clicks carried in the FSM data and the
\* reward multiplier of this moment
TakeOrderOn(d0, d, mul) ==
    IF ~ensure_no_active_order(d0)
    THEN Finish(Refuse(Ctx(d0), "ORDER_ALREADY"), FsmClear)
    ELSE Finish(Ctx([d EXCEPT
                       !.orders = @ \cup {NewUserOrder(d.nextOrderId, fsm.order_id,
                                                       fsm.req, mul)},
                       !.nextOrderId = @ + 1]),
                FsmClear)

take_order ==
    /\ LogRoom
    /\ fsm.state = "orders.confirm"
    /\ nextOrderId <= MaxOrders
    /\ \/ /\ impl = "mono"
          /\ TakeOrderOn(Db, purge_expired_buffs("mono", Db, now),
                         mono_get_user_stats(Db, now).reward_mul_total)
       \/ /\ impl = "pkg"
          /\ \E d \in {PkgEnsureUser(Db)} :
                TakeOrderOn(d, d, pkg_get_user_stats(d, now).reward_mul_total)

\* the skills offered by maybe_prompt_skill_choice: those of min_level <= level
\* the player does not have (the prompt shows a random sample of at most 3 of
\* them; the data keeps every skill a sample can hold)
get_available_skills(d) ==
    {c \in SkillCodes : SkillByCode(c).min_level <= d.user.level /\ c \notin d.skills}

MilestoneCrossed(prev_level, level) ==
    \E lvl \in (prev_level + 1)..level :
        lvl >= SKILL_LEVEL_INTERVAL /\ lvl % SKILL_LEVEL_INTERVAL = 0

\* the FSM after maybe_prompt_skill_choice
maybe_prompt_skill_choice(f, d, prev_level) ==
    IF MilestoneCrossed(prev_level, d.user.level) /\ get_available_skills(d) # {}
    THEN [f EXCEPT !.state = "skills.picking", !.skill_codes = get_available_skills(d)]
    ELSE f

\* xp_gain = int(round(int(round(required * 0.1)) * (1 + xp_pct)))
XpGain(required, xp_pct) == RoundDiv(RoundDiv(required, 10) * (1000 + xp_pct), 1000)

\* the reward the monolith pays for a completed order: from the multiplier
\* stored on the row
MonoReward(active) ==
    finish_order_reward(active.required_clicks, active.reward_snapshot_mul)

\* a click that would store the progress and leave the completion to the
\* next click
MonoProgressOnly(d, active, prog, xp_pct) ==
    UpdateOrder(d, active, [active EXCEPT !.progress_clicks = prog])

\* the completion branch of handle_click (monolith), up to the log row
MonoFinishOrder(d, active, prog, xp_pct) ==
    AddLog([UpdateOrder(d, active, [active EXCEPT
                                      !.progress_clicks = prog,
                                      !.finished = TRUE])
              EXCEPT !.user = add_xp_and_levelup(
                                 [@ EXCEPT !.balance = @ + MonoReward(active),
                                           !.orders_completed = @ + 1],
                                 XpGain(active.required_clicks, xp_pct))],
           "order_finish", MonoReward(active))

\* handle_click (monolith) from the click counter on; c4 is the context after
\* the first random roll
mono_click_active(c4, active, stats, prog) ==
    IF prog >= active.required_clicks
    THEN \E d6 \in {MonoFinishOrder(c4.d, active, prog, stats.xp_pct)} :
         \E ev2 \in EventOutcomes(d6) :
            Finish(notify_new_achievements(
                       evaluate_achievements(
                           [c4 EXCEPT !.d = trigger_random_event(d6, ev2, now)],
                           now, {"orders", "level", "balance"})),
                   maybe_prompt_skill_choice(fsm, d6, c4.d.user.level))
    ELSE Finish(notify_new_achievements(
                    [c4 EXCEPT !.d = UpdateOrder(@, active,
                                                 [active EXCEPT !.progress_clicks = prog])]),
                fsm)

\* the click counter and its achievements
MonoCountClick(c1, cp) ==
    evaluate_achievements(
        [c1 EXCEPT !.d = [purge_expired_buffs("mono", @, now) EXCEPT
                             !.user.clicks_total = @ + cp]],
        now, {"clicks"})

\* handle_click (monolith); ev1 is the outcome of the roll made on every
\* RANDOM_EVENT_CLICK_INTERVAL-th click
mono_handle_click ==
    \E c1 \in {MonoSession} :
        IF ~HasActive(c1.d)
        THEN Finish(Refuse(c1, "NO_ACTIVE_ORDER"), fsm)
        ELSE \E stats \in {mono_get_user_stats(c1.d, now)} :
             \E c3 \in {MonoCountClick(c1, stats.cp)} :
             \E ev1 \in (IF c3.d.user.clicks_total % RANDOM_EVENT_CLICK_INTERVAL = 0
                         THEN EventOutcomes(c3.d) ELSE {"none"}) :
                mono_click_active([c3 EXCEPT !.d = trigger_random_event(@, ev1, now)],
                                  get_active_order(c1.d), stats,
                                  NextProgress(get_active_order(c1.d).required_clicks,
                                               get_active_order(c1.d).progress_clicks,
                                               stats.cp))

\* the reward the package pays: from the multiplier of the moment of the click
PkgReward(active, stats) ==
    pkg_finish_order_reward(active.required_clicks, stats.reward_mul_total)

\* the completion branch of handle_click (package)
PkgFinishOrder(d, active, prog, stats) ==
    AddLog([UpdateOrder(d, active, [active EXCEPT
                                      !.progress_clicks = prog,
                                      !.finished = TRUE])
              EXCEPT !.user = add_xp_and_levelup(
                                 [@ EXCEPT !.balance = @ + PkgReward(active, stats)],
                                 RoundDiv(active.required_clicks, 10))],
           "order_finish", PkgReward(active, stats))

pkg_click_active(d, active, stats, prog) ==
    IF prog < active.required_clicks
    THEN Finish(Ctx(UpdateOrder(d, active, [active EXCEPT !.progress_clicks = prog])), fsm)
    ELSE Finish(Ctx(PkgFinishOrder(d, active, prog, stats)), fsm)

\* handle_click (package)
pkg_handle_click ==
    \E d1 \in {PkgEnsureUser(Db)} :
        IF ~HasActive(d1)
        THEN Finish(Refuse(Ctx(d1), "NO_ACTIVE_ORDER"), fsm)
        ELSE \E stats \in {pkg_get_user_stats(d1, now)} :
                pkg_click_active(d1, get_active_order(d1), stats,
                                 NextProgress(get_active_order(d1).required_clicks,
                                              get_active_order(d1).progress_clicks,
                                              stats.cp))

handle_click ==
    /\ LogRoom
    /\ \/ impl = "mono" /\ mono_handle_click
       \/ impl = "pkg" /\ pkg_handle_click

\* a cancel that marks every assignment of the player
CancelEverything(d) == [d EXCEPT !.orders = {[o EXCEPT !.canceled = TRUE] : o \in @}]

CancelActive(d) ==
    IF ~HasActive(d) THEN d
    ELSE UpdateOrder(d, get_active_order(d), [get_active_order(d) EXCEPT !.canceled = TRUE])

\* "if not active": the answer is that there is no active order
CancelRefusal(d) == IF ~HasActive(d) THEN "NO_ACTIVE_ORDER" ELSE "none"

\* profile_cancel_order: the active order becomes canceled; nothing else changes
profile_cancel_order ==
    /\ LogRoom
    /\ \/ impl = "mono" /\ Finish(Refuse(Ctx(CancelActive(Db)), CancelRefusal(Db)), fsm)
       \/ /\ impl = "pkg"
          /\ \E d \in {PkgEnsureUser(Db)} :
                Finish(Refuse(Ctx(CancelActive(d)), CancelRefusal(d)), fsm)

----------------------------------------------------------------------------
(* Shop: boosts *)

shop_root ==
    /\ LogRoom
    /\ Finish(Ctx(Db), [FsmClear EXCEPT !.state = "shop.root"])

\* shop_boosts and render_boosts
shop_boosts ==
    /\ LogRoom
    /\ fsm.state = "shop.root"
    /\ \/ impl = "mono" /\ Finish(MonoRender(Db), [FsmClear EXCEPT !.state = "shop.boosts"])
       \/ impl = "pkg"
          /\ Finish(Ctx(PkgEnsureUser(Db)), [FsmClear EXCEPT !.state = "shop.boosts"])

shop_choose_boost ==
    /\ LogRoom
    /\ fsm.state = "shop.boosts"
    /\ \E bid \in BoostChoices :
          Finish(Ctx(Db), [FsmClear EXCEPT !.state = "shop.confirm_boost",
                                          !.boost_id = bid])

BoostCost(d, bid) ==
    upgrade_cost(SEED_BOOSTS[bid].base_cost, SEED_BOOSTS[bid].gnum,
                 SEED_BOOSTS[bid].gden, d.boosts[bid] + 1)

\* a purchase that never looks at the balance
AffordAnything(balance, cost) == TRUE

\* "if user.balance < cost: insufficient funds, else: buy"
CanAfford(balance, cost) == ~(balance < cost)

\* the two branches of shop_buy_boost
BuyBoost(d, bid) ==
    IF CanAfford(d.user.balance, BoostCost(d, bid))
    THEN AddLog([d EXCEPT !.user.balance = @ - BoostCost(d, bid), !.boosts[bid] = @ + 1],
                "buy_boost", 0 - BoostCost(d, bid))
    ELSE d

\* "if u.balance < cost": RU.INSUFFICIENT_FUNDS
BoostRefusal(d, bid) ==
    IF CanAfford(d.user.balance, BoostCost(d, bid)) THEN "none" ELSE "INSUFFICIENT_FUNDS"

\* the session of a purchase handler of the monolith: passive income, the
\* purchase, the achievements of its triggers when something was bought,
\* the announcement; then the page is rendered again
MonoBuy(c1, d2, triggers) ==
    notify_new_achievements(
        IF d2 # c1.d
        THEN evaluate_achievements([c1 EXCEPT !.d = d2], now, triggers)
        ELSE c1)

MonoPurchase(c1, d2, triggers) == MonoRender(MonoBuy(c1, d2, triggers).d)

shop_buy_boost ==
    /\ LogRoom
    /\ fsm.state = "shop.confirm_boost"
    /\ boosts[fsm.boost_id] < MaxBoostLevel
    /\ \/ /\ impl = "mono"
          /\ \E c1 \in {MonoSession} :
                Finish(Refuse(MonoPurchase(c1, BuyBoost(c1.d, fsm.boost_id), {}),
                              BoostRefusal(c1.d, fsm.boost_id)),
                       [FsmClear EXCEPT !.state = "shop.boosts"])
       \/ /\ impl = "pkg"
          /\ \E d \in {PkgEnsureUser(Db)} :
                Finish(Refuse(Ctx(BuyBoost(d, fsm.boost_id)),
                              BoostRefusal(d, fsm.boost_id)),
                       FsmClear)

----------------------------------------------------------------------------
(* Shop: equipment; wardrobe *)

\* get_next_items_for_user: per slot the lowest tier not owned, of the items
\* the level allows
NextItems(d) ==
    {c \in ItemCodes("mono") :
        /\ ItemByCode("mono", c).min_level <= d.user.level
        /\ c \notin d.items
        /\ \A c2 \in ItemCodes("mono") :
              (/\ ItemByCode("mono", c2).slot = ItemByCode("mono", c).slot
               /\ ItemByCode("mono", c2).min_level <= d.user.level
               /\ ItemByCode("mono", c2).tier < ItemByCode("mono", c).tier)
                 => c2 \in d.items}

SlotRank(sl) ==
    CASE sl = "chair" -> 1 [] sl = "charm" -> 2 [] sl = "laptop" -> 3
      [] sl = "monitor" -> 4 [] sl = "phone" -> 5 [] sl = "tablet" -> 6

\* page 0 of the monolith's shop: the first 5 by (slot, tier)
MonoItemPage(d) ==
    {c \in NextItems(d) :
        Cardinality({c2 \in NextItems(d) :
                        SlotRank(ItemByCode("mono", c2).slot)
                            < SlotRank(ItemByCode("mono", c).slot)}) < 5}

\* page 0 of the package's shop: the first 5 rows with min_level <= level
PkgItemPage(d) ==
    FirstFive(SelectSeq([k \in DOMAIN SEED_ITEMS_PKG |-> SEED_ITEMS_PKG[k].code],
                        LAMBDA c : ItemByCode("pkg", c).min_level <= d.user.level), 5)

shop_equipment ==
    /\ LogRoom
    /\ fsm.state = "shop.root"
    /\ \/ /\ impl = "mono"
          /\ \E c \in {MonoRender(Db)} :
                Finish(c, [FsmClear EXCEPT !.state = "shop.equipment",
                                           !.item_ids = MonoItemPage(c.d)])
       \/ /\ impl = "pkg"
          /\ \E d \in {PkgEnsureUser(Db)} :
                Finish(Ctx(d), [FsmClear EXCEPT !.state = "shop.equipment",
                                                !.item_ids = PkgItemPage(d)])

shop_choose_item ==
    /\ LogRoom
    /\ fsm.state = "shop.equipment"
    /\ \E c \in fsm.item_ids \cap ItemChoices :
          Finish(Ctx(Db), [FsmClear EXCEPT !.state = "shop.confirm_item",
                                          !.item_code = c])

\* the branches of shop_buy_item: already owned, insufficient funds, purchase
BuyItem(i, d, c) ==
    IF c \in d.items THEN d
    ELSE IF ~CanAfford(d.user.balance, ItemByCode(i, c).price) THEN d
    ELSE AddLog([d EXCEPT !.user.balance = @ - ItemByCode(i, c).price,
                          !.items = @ \cup {c}],
                "buy_item", 0 - ItemByCode(i, c).price)

\* "if has": already bought; "elif u.balance < it.price": RU.INSUFFICIENT_FUNDS
ItemRefusal(i, d, c) ==
    IF c \in d.items THEN "ALREADY_OWNED"
    ELSE IF ~CanAfford(d.user.balance, ItemByCode(i, c).price) THEN "INSUFFICIENT_FUNDS"
    ELSE "none"

shop_buy_item ==
    /\ LogRoom
    /\ fsm.state = "shop.confirm_item"
    /\ \/ /\ impl = "mono"
          /\ \E c1 \in {MonoSession} :
             \E c4 \in {MonoPurchase(c1, BuyItem("mono", c1.d, fsm.item_code), {"items"})} :
                Finish(Refuse(c4, ItemRefusal("mono", c1.d, fsm.item_code)),
                       [FsmClear EXCEPT !.state = "shop.equipment",
                                        !.item_ids = MonoItemPage(c4.d)])
       \/ /\ impl = "pkg"
          /\ \E d \in {PkgEnsureUser(Db)} :
                Finish(Refuse(Ctx(BuyItem("pkg", d, fsm.item_code)),
                              ItemRefusal("pkg", d, fsm.item_code)),
                       FsmClear)

\* wardrobe_root and render_inventory: page 0 of the owned items
wardrobe_root ==
    /\ LogRoom
    /\ \/ /\ impl = "mono"
          /\ \E c \in {MonoRender(Db)} :
                Finish(c, [FsmClear EXCEPT !.state = "wardrobe.browsing",
                                           !.item_ids = c.d.items])
       \/ /\ impl = "pkg"
          /\ \E d \in {PkgEnsureUser(Db)} :
                Finish(Ctx(d), [FsmClear EXCEPT !.state = "wardrobe.browsing",
                                                !.item_ids = d.items])

wardrobe_choose ==
    /\ LogRoom
    /\ fsm.state = "wardrobe.browsing"
    /\ \E c \in fsm.item_ids :
          Finish(Ctx(Db), [FsmClear EXCEPT !.state = "wardrobe.equip_confirm",
                                          !.item_code = c])

\* an equip that does not look for the UserItem row
EquipUnchecked(i, d, c) == [d EXCEPT !.equip[ItemByCode(i, c).slot] = c]

\* the item goes into the slot of its kind if the player owns it
Equip(i, d, c) ==
    IF c \in d.items THEN [d EXCEPT !.equip[ItemByCode(i, c).slot] = c] ELSE d

\* "if not has": RU.EQUIP_NOITEM
EquipRefusal(d, c) == IF c \in d.items THEN "none" ELSE "EQUIP_NOITEM"

wardrobe_equip ==
    /\ LogRoom
    /\ fsm.state = "wardrobe.equip_confirm"
    /\ \/ /\ impl = "mono"
          /\ \E c2 \in {MonoRender(Equip("mono", MonoRender(Db).d, fsm.item_code))} :
                Finish(Refuse(c2, EquipRefusal(Db, fsm.item_code)),
                       [FsmClear EXCEPT !.state = "wardrobe.browsing",
                                        !.item_ids = c2.d.items])
       \/ /\ impl = "pkg"
          /\ \E d \in {PkgEnsureUser(Db)} :
                Finish(Refuse(Ctx(Equip("pkg", d, fsm.item_code)),
                              EquipRefusal(d, fsm.item_code)),
                       FsmClear)

----------------------------------------------------------------------------
(* Team *)

\* rank of a member in "order_by(TeamMember.base_cost, TeamMember.id)"
MemberRank(m) ==
    Cardinality({k \in MemberIds :
                    \/ SEED_TEAM[k].base_cost < SEED_TEAM[m].base_cost
                    \/ SEED_TEAM[k].base_cost = SEED_TEAM[m].base_cost /\ k < m}) + 1

\* page 0 of render_team: the first 5 of the level - 1 cheapest members
MonoTeamPage(d) ==
    {m \in MemberIds : MemberRank(m) <= Min(5, Max(0, d.user.level - 1))}

\* page 0 of _render_team: the first 5 members
PkgTeamPage == {m \in MemberIds : m <= 5}

\* fmt_team: the loop over the listed members reads m.base_income_per_min, and
\* no m is bound in fmt_team or in the module: NameError on the first member
fmt_team_raises(listed) == listed # {}

\* a failed render whose session would commit what it had done
RenderTeamKeeps(c, d, f) == [c |-> Refuse(c, "ERROR_MESSAGE"), fsm |-> f]

\* render_team on the rows d with the FSM f; c is its session after the
\* passive income.  No member unlocked: the state is cleared and the session
\* commits (without the announcement).  Otherwise fmt_team is called before
\* member_ids is stored: on its error the session is rolled back, safe_handler
\* answers ERROR_MESSAGE and the FSM is left as it was
RenderTeamOn(c, d, f) ==
    IF MonoTeamPage(c.d) = {}
    THEN [c |-> c, fsm |-> FsmClear]
    ELSE IF fmt_team_raises(MonoTeamPage(c.d))
    THEN [c |-> Refuse(Ctx(d), "ERROR_MESSAGE"), fsm |-> f]
    ELSE [c |-> notify_new_achievements(c),
          fsm |-> [f EXCEPT !.member_ids = MonoTeamPage(c.d)]]

render_team(d, f) == RenderTeamOn(process_offline_income(Ctx(d), now), d, f)

\* the answer of a handler that ends in render_team: its own refusal, or the
\* error of the page
TeamAnswer(own, r) == IF r.c.refusal # "none" THEN r.c.refusal ELSE own

team_root ==
    /\ LogRoom
    /\ \/ /\ impl = "mono"
          /\ IF user.level < 2
             THEN Finish(Ctx(Db), FsmClear)
             ELSE \E r \in {render_team(Db, [FsmClear EXCEPT !.state = "team.browsing"])} :
                     Finish(r.c, r.fsm)
       \/ /\ impl = "pkg"
          /\ Finish(Ctx(PkgEnsureUser(Db)),
                    [FsmClear EXCEPT !.state = "team.browsing", !.member_ids = PkgTeamPage])

team_choose ==
    /\ LogRoom
    /\ fsm.state = "team.browsing"
    /\ \E m \in fsm.member_ids \cap MemberChoices :
          Finish(Ctx(Db), [FsmClear EXCEPT !.state = "team.confirm", !.member_id = m,
                                          !.member_ids = fsm.member_ids])

MemberCost(d, m) == team_upgrade_cost(SEED_TEAM[m].base_cost, d.team[m])

\* the two branches of team_upgrade
UpgradeMember(d, m) ==
    IF CanAfford(d.user.balance, MemberCost(d, m))
    THEN AddLog([d EXCEPT !.user.balance = @ - MemberCost(d, m), !.team[m] = @ + 1],
                "team_upgrade", 0 - MemberCost(d, m))
    ELSE d

\* "if u.balance < cost": RU.INSUFFICIENT_FUNDS
MemberRefusal(d, m) ==
    IF CanAfford(d.user.balance, MemberCost(d, m)) THEN "none" ELSE "INSUFFICIENT_FUNDS"

team_upgrade ==
    /\ LogRoom
    /\ fsm.state = "team.confirm"
    /\ team[fsm.member_id] < MaxTeamLevel
    /\ \/ /\ impl = "mono"
          /\ \E c1 \in {MonoSession} :
             \E c4 \in {MonoBuy(c1, UpgradeMember(c1.d, fsm.member_id), {"team"})} :
             \E r \in {render_team(c4.d, [FsmClear EXCEPT !.state = "team.browsing",
                                                         !.member_ids = fsm.member_ids])} :
                Finish(Refuse(r.c, TeamAnswer(MemberRefusal(c1.d, fsm.member_id), r)),
                       r.fsm)
       \/ /\ impl = "pkg"
          /\ \E d \in {PkgEnsureUser(Db)} :
                Finish(Refuse(Ctx(UpgradeMember(d, fsm.member_id)),
                              MemberRefusal(d, fsm.member_id)),
                       FsmClear)

----------------------------------------------------------------------------
(* Daily bonus *)

\* a claim that is never too early
NeverWait(u, t) == FALSE

\* "last_bonus and (now - last_bonus) < timedelta(hours=24)"
DailyWait(u, t) == u.daily_bonus_at # None /\ t - u.daily_bonus_at < DAY_SECONDS

\* the writes of profile_daily; the package keeps no claim counter
GrantDaily(i, d, t) ==
    AddLog([d EXCEPT !.user.daily_bonus_at = t,
                     !.user.balance = @ + DAILY_BONUS_RUB,
                     !.user.daily_bonus_claims = IF i = "mono" THEN @ + 1 ELSE @],
           "daily_bonus", DAILY_BONUS_RUB)

mono_profile_daily ==
    \E c1 \in {MonoSession} :
        IF DailyWait(c1.d.user, now)
        THEN Finish(Refuse(c1, "DAILY_WAIT"), fsm)
        ELSE Finish(notify_new_achievements(
                        evaluate_achievements([c1 EXCEPT !.d = GrantDaily("mono", @, now)],
                                              now, {"daily", "balance"})),
                    fsm)

pkg_profile_daily ==
    \E d1 \in {PkgEnsureUser(Db)} :
        IF DailyWait(d1.user, now)
        THEN Finish(Refuse(Ctx(d1), "DAILY_WAIT"), fsm)
        ELSE Finish(Ctx(GrantDaily("pkg", d1, now)), fsm)

profile_daily ==
    /\ LogRoom
    /\ \/ impl = "mono" /\ mono_profile_daily
       \/ impl = "pkg" /\ pkg_profile_daily

----------------------------------------------------------------------------
(* Studio (prestige) and skills: monolith only *)

\* a reset that would also clear the player's EconomyLog rows
ResetWithLog(d, gain) ==
    [d EXCEPT !.user.balance = 200, !.user.level = 1, !.user.xp = 0,
              !.boosts = NoBoosts, !.team = NoTeam, !.items = {},
              !.buffs = << >>, !.skills = {}, !.orders = {},
              !.equip = NoEquip("mono"), !.log = << >>]

perform_prestige_reset(d, gain) ==
    [AddLog([d EXCEPT !.prestige.reputation = @ + Max(0, gain),
                      !.prestige.resets = @ + 1],
            "prestige_reset", 0)
       EXCEPT !.user.balance = 200, !.user.cp_base = 1, !.user.reward_mul = 0,
              !.user.passive_mul = 0, !.user.level = 1, !.user.xp = 0,
              !.user.orders_completed = 0, !.user.clicks_total = 0,
              !.user.passive_income_collected = 0,
              !.boosts = NoBoosts, !.team = NoTeam, !.items = {},
              !.buffs = << >>, !.skills = {}, !.orders = {},
              !.ach = [a \in AchIds |->
                          IF @[a].row /\ @[a].unlocked_at = None THEN NoAch ELSE @[a]],
              !.equip = NoEquip("mono")]

\* gain = max(0, user.balance // 1000)
PrestigeGain(balance) == Max(0, balance \div 1000)

show_studio ==
    /\ LogRoom
    /\ impl = "mono"
    /\ \E c1 \in {MonoSession} :
          IF c1.d.user.level < STUDIO_MIN_LEVEL
          THEN Finish(c1, fsm)
          ELSE Finish(notify_new_achievements(c1),
                      IF PrestigeGain(c1.d.user.balance) > 0
                      THEN [FsmClear EXCEPT !.state = "studio.confirm",
                                            !.gain = PrestigeGain(c1.d.user.balance)]
                      ELSE fsm)

confirm_studio ==
    /\ LogRoom
    /\ impl = "mono"
    /\ fsm.state = "studio.confirm"
    /\ Finish(Ctx(perform_prestige_reset(Db, fsm.gain)), FsmClear)

PickSkill(d, code) ==
    IF code \in d.skills THEN d
    ELSE AddLog([d EXCEPT !.skills = @ \cup {code}], "skill_pick", 0)

pick_skill ==
    /\ LogRoom
    /\ impl = "mono"
    /\ fsm.state = "skills.picking"
    /\ \E code \in fsm.skill_codes \cap SkillChoices :
          Finish(Ctx(PickSkill(Db, code)), FsmClear)

----------------------------------------------------------------------------
Next ==
    \/ Tick
    \/ back_to_menu
    \/ orders_root
    \/ choose_order
    \/ take_order
    \/ handle_click
    \/ profile_cancel_order
    \/ shop_root
    \/ shop_boosts
    \/ shop_choose_boost
    \/ shop_buy_boost
    \/ shop_equipment
    \/ shop_choose_item
    \/ shop_buy_item
    \/ wardrobe_root
    \/ wardrobe_choose
    \/ wardrobe_equip
    \/ team_root
    \/ team_choose
    \/ team_upgrade
    \/ profile_daily
    \/ show_studio
    \/ confirm_studio
    \/ pick_skill

Spec == Init /\ [][Next]_vars

----------------------------------------------------------------------------
(* get_user_stats on its own: the modifier rows are drawn, the function is  *)
(* applied to them                                                          *)

MaxCpBoost == 2

Buff(expires_at, payload) == [code |-> "buff", expires_at |-> expires_at, payload |-> payload]

\* rows of user_buffs: none, negative additive, negative percentage, both
\* (with an expiry ahead), and an expired row
StatBuffs ==
    { << >>,
      << Buff(None, Eff(0 - 5, 0, 0, 0, 0, 0)) >>,
      << Buff(None, Eff(0, 0 - 2500, 0, 0, 0, 0)) >>,
      << Buff(600, Eff(0 - 1, 0 - 500, 0, 0, 0, 0)) >>,
      << Buff(0, Eff(7, 0, 0, 0, 0, 0)) >>,
      << Buff(0, Eff(7, 0, 0, 0, 0, 0)), Buff(900, Eff(2, 0, 0, 0, 0, 0)) >> }

StatSkills == { {}, {"perfectionist"}, {"perfectionist", "ui_alchemist"} }

StatReputations == {0, 50}

InitStats ==
    /\ impl \in {"mono", "pkg"}
    /\ now = 0
    /\ user = NewUser
    /\ boosts \in {[b \in BoostIds |-> IF b = 1 THEN n ELSE 0] : n \in 0..MaxCpBoost}
    /\ team = NoTeam
    /\ items \in { {}, {"laptop_t1"} }
    /\ equip = IF items = {} THEN NoEquip(impl)
               ELSE [NoEquip(impl) EXCEPT !["laptop"] = "laptop_t1"]
    /\ buffs \in StatBuffs
    /\ skills \in StatSkills
    /\ prestige \in {[reputation |-> r, resets |-> 0] : r \in StatReputations}
    /\ ach = NoAchievements
    /\ announced = NoneAnnounced
    /\ orders = {}
    /\ nextOrderId = 1
    /\ log = << >>
    /\ fsm = FsmClear
    /\ refusal = "none"
    /\ probe = [cp |-> None]

\* one call of get_user_stats: the click power it returns, and the expired
\* rows it deletes
call_get_user_stats ==
    /\ probe.cp = None
    /\ probe' = [cp |-> get_user_stats(impl, Db, now).cp]
    /\ buffs' = purge_expired_buffs(impl, Db, now).buffs
    /\ UNCHANGED <<impl, now, user, orders, nextOrderId, boosts, team, items, equip,
                   skills, prestige, ach, announced, log, fsm,
                   refusal>>

NextStats == call_get_user_stats

SpecStats == InitStats /\ [][NextStats]_vars

----------------------------------------------------------------------------
(* finish_order_reward on its own *)

MaxRequired == 100

\* reward multipliers from 0.0 to 1.0, in thousandths
RewardMultipliers == {0, 250, 500, 750, 999, 1000}

\* finish_order_reward of the implementation i
FinishReward(i, required, mul) ==
    IF i = "mono" THEN finish_order_reward(required, mul)
    ELSE pkg_finish_order_reward(required, mul)

InitReward ==
    /\ impl \in {"mono", "pkg"}
    /\ probe \in [required : 1..MaxRequired, mul : RewardMultipliers,
                  reward : {None}, at_one : {None}]
    /\ user = NewUser
    /\ boosts = NoBoosts
    /\ team = NoTeam
    /\ items = {}
    /\ equip = NoEquip(impl)
    /\ skills = {}
    /\ prestige = [reputation |-> 0, resets |-> 0]
    /\ ach = NoAchievements
    /\ announced = NoneAnnounced
    /\ now = 0
    /\ orders = {}
    /\ nextOrderId = 1
    /\ buffs = << >>
    /\ log = << >>
    /\ fsm = FsmClear
    /\ refusal = "none"

\* one call of finish_order_reward on the drawn arguments, and one with the
\* multiplier 1.0
call_finish_order_reward ==
    /\ probe.reward = None
    /\ probe' = [probe EXCEPT !.reward = FinishReward(impl, probe.required, probe.mul),
                              !.at_one = FinishReward(impl, probe.required, 1000)]
    /\ UNCHANGED <<impl, now, user, orders, nextOrderId, boosts, team, items, equip,
                   buffs, skills, prestige, ach, announced, log, fsm,
                   refusal>>

NextReward == call_finish_order_reward

SpecReward == InitReward /\ [][NextReward]_vars

----------------------------------------------------------------------------
(* apply_offline_income on its own: a player seen some time ago is touched  *)
(* once, and again                                                          *)

HundredHours == 100 * 60 * 60

\* last_seen: 100 h ago, just over and exactly 12 h ago, 6 h ago, 10 min ago, now
OfflineLastSeen ==
    {0, HundredHours - MAX_OFFLINE_SECONDS - 1, HundredHours - MAX_OFFLINE_SECONDS,
     HundredHours - 21600, HundredHours - 600, HundredHours}

OfflineTeams ==
    { NoTeam,
      [NoTeam EXCEPT ![1] = 1],
      [NoTeam EXCEPT ![1] = 2],
      [NoTeam EXCEPT ![1] = 1, ![2] = 1] }

\* levels of the passive boost
PassiveBoostLevels == {0, 1}

MaxCalls == 2

InitOffline ==
    /\ impl \in {"mono", "pkg"}
    /\ now = HundredHours
    /\ \E ls \in OfflineLastSeen : user = [NewUser EXCEPT !.last_seen = ls]
    /\ boosts \in {[b \in BoostIds |-> IF b = 3 THEN n ELSE 0] : n \in PassiveBoostLevels}
    /\ team \in OfflineTeams
    /\ items = {}
    /\ equip = NoEquip(impl)
    /\ skills = {}
    /\ prestige = [reputation |-> 0, resets |-> 0]
    /\ ach = NoAchievements
    /\ announced = NoneAnnounced
    /\ orders = {}
    /\ nextOrderId = 1
    /\ buffs = << >>
    /\ log = << >>
    /\ fsm = FsmClear
    /\ refusal = "none"
    /\ probe = [gained |-> None, cap |-> None, calls |-> 0]

\* int(rate * MAX_OFFLINE_SECONDS) for the rate of the store d
TwelveHourAmount(i, d, t) ==
    PassiveAmount(TeamPerMinQ(d), get_user_stats(i, d, t).passive_mul_total,
                  MAX_OFFLINE_SECONDS)

\* one call of apply_offline_income; probe keeps what it returned, what
\* 12 hours are worth at the rate of the call, and how many calls were made
call_apply_offline_income ==
    /\ probe.calls < MaxCalls
    /\ \E r \in {apply_offline_income(impl, Db, now)} :
          /\ Commit(r.d)
          /\ probe' = [gained |-> r.gained, cap |-> TwelveHourAmount(impl, Db, now),
                       calls |-> probe.calls + 1]
    /\ UNCHANGED <<impl, now, fsm, refusal>>

NextOffline == call_apply_offline_income

SpecOffline == InitOffline /\ [][NextOffline]_vars

----------------------------------------------------------------------------
(* add_xp_and_levelup on its own: a list of grants applied one by one *)

MaxStartLevel == 3

\* the grants the pairs are drawn from
XpGrants == {0, 1, 99, 100, 400, 5500}

\* every pair of grants, the five thresholds of levels 1..5, and their total
GrantLists ==
    {<<a, b>> : a, b \in XpGrants} \cup {<<100, 400, 900, 1600, 2500>>, <<5500>>}

\* a normalised starting (level, xp)
XpStarts ==
    UNION {{<<l, x>> : x \in {0, 1, xp_to_level(l) - 1}} : l \in 1..MaxStartLevel}

InitXp ==
    /\ impl \in {"mono", "pkg"}
    /\ now = 0
    /\ \E st \in XpStarts, gl \in GrantLists :
          /\ user = [NewUser EXCEPT !.level = st[1], !.xp = st[2]]
          /\ probe = [start |-> [NewUser EXCEPT !.level = st[1], !.xp = st[2]],
                      grants |-> gl, applied |-> 0, total |-> 0]
    /\ boosts = NoBoosts
    /\ team = NoTeam
    /\ items = {}
    /\ equip = NoEquip(impl)
    /\ skills = {}
    /\ prestige = [reputation |-> 0, resets |-> 0]
    /\ ach = NoAchievements
    /\ announced = NoneAnnounced
    /\ orders = {}
    /\ nextOrderId = 1
    /\ buffs = << >>
    /\ log = << >>
    /\ fsm = FsmClear
    /\ refusal = "none"

\* one call of add_xp_and_levelup with the next grant of the list
call_add_xp_and_levelup ==
    /\ probe.applied < Len(probe.grants)
    /\ user' = add_xp_and_levelup(user, probe.grants[probe.applied + 1])
    /\ probe' = [probe EXCEPT !.applied = @ + 1,
                              !.total = @ + probe.grants[probe.applied + 1]]
    /\ UNCHANGED <<impl, now, orders, nextOrderId, boosts, team, items, equip,
                   buffs, skills, prestige, ach, announced, log, fsm,
                   refusal>>

NextXp == call_add_xp_and_levelup

SpecXp == InitXp /\ [][NextXp]_vars

----------------------------------------------------------------------------
(* The first order of a new player: the order menu and the click button only *)

\* the row and the empty tables right after registration
InitScenario ==
    /\ impl \in {"mono", "pkg"}
    /\ user = NewUser
    /\ boosts = NoBoosts
    /\ team = NoTeam
    /\ items = {}
    /\ equip = NoEquip(impl)
    /\ skills = {}
    /\ prestige = [reputation |-> 0, resets |-> 0]
    /\ ach = NoAchievements
    /\ announced = NoneAnnounced
    /\ InitCommon

NextScenario ==
    \/ orders_root
    \/ choose_order
    \/ take_order
    \/ handle_click

SpecScenario == InitScenario /\ [][NextScenario]_vars

----------------------------------------------------------------------------
(* The wardrobe on its own.  aiogram keeps the FSM data per chat while the  *)
(* rows belong to the player, so the Equip button can arrive for an item    *)
(* whose UserItem row is gone or was never there: every item code is a      *)
(* possible request.                                                        *)

WardrobeItems == {"laptop_t1", "laptop_t2", "phone_t1"}

\* the slots hold nothing or an owned item of their kind
WornFrom(i, owned) ==
    {e \in [SlotSet(i) -> owned \cup {NoItem}] :
        \A sl \in SlotSet(i) : e[sl] # NoItem => ItemByCode(i, e[sl]).slot = sl}

InitWardrobe ==
    /\ impl \in {"mono", "pkg"}
    /\ user = [NewUser EXCEPT !.balance = 1500, !.level = STUDIO_MIN_LEVEL]
    /\ boosts = NoBoosts
    /\ team = NoTeam
    /\ items \in SUBSET WardrobeItems
    /\ equip \in WornFrom(impl, items)
    /\ skills = {}
    /\ prestige = [reputation |-> 0, resets |-> 0]
    /\ ach = NoAchievements
    /\ announced = NoneAnnounced
    /\ fsm \in {[FsmClear EXCEPT !.state = "wardrobe.equip_confirm", !.item_code = c] :
                   c \in WardrobeItems}
    /\ now = 0
    /\ orders = {}
    /\ nextOrderId = 1
    /\ buffs = << >>
    /\ log = << >>
    /\ refusal = "none"
    /\ probe = None

NextWardrobe ==
    \/ wardrobe_root
    \/ wardrobe_choose
    \/ wardrobe_equip
    \/ shop_root
    \/ shop_equipment
    \/ shop_choose_item
    \/ shop_buy_item
    \/ show_studio
    \/ confirm_studio

SpecWardrobe == InitWardrobe /\ [][NextWardrobe]_vars

----------------------------------------------------------------------------
(* The daily bonus on its own, with instants on both sides of the 24 hours  *)

DailyInstants == {3600, DAY_SECONDS - 1, DAY_SECONDS, DAY_SECONDS + 3600,
                  2 * DAY_SECONDS, 2 * DAY_SECONDS + 3600}

InitDaily ==
    /\ impl \in {"mono", "pkg"}
    /\ user = NewUser
    /\ boosts = NoBoosts
    /\ team \in {NoTeam, [m \in MemberIds |-> IF m = 1 THEN 1 ELSE 0]}
    /\ items = {}
    /\ equip = NoEquip(impl)
    /\ skills = {}
    /\ prestige = [reputation |-> 0, resets |-> 0]
    /\ ach = NoAchievements
    /\ announced = NoneAnnounced
    /\ InitCommon

\* the player comes back later
DailyTick ==
    /\ \E t \in DailyInstants : t > now /\ now' = t
    /\ UNCHANGED <<impl, user, orders, nextOrderId, boosts, team, items, equip,
                   buffs, skills, prestige, ach, announced, log, fsm, refusal,
                   probe>>

NextDaily ==
    \/ DailyTick
    \/ profile_daily
    \/ back_to_menu

SpecDaily == InitDaily /\ [][NextDaily]_vars

----------------------------------------------------------------------------
(* The order buttons on their own.  The FSM data belongs to the chat and    *)
(* the assignments to the player, so the Take button of a confirmation can  *)
(* arrive while an order taken elsewhere is in progress: every combination  *)
(* of assignments and pending confirmation is a starting point.             *)

OrderRow(id, progress, finished, canceled) ==
    [NewUserOrder(id, 1, SEED_ORDERS[1].base_clicks, 1000) EXCEPT
        !.progress_clicks = progress, !.finished = finished, !.canceled = canceled]

OrderTables ==
    { {},
      {OrderRow(1, 97, FALSE, FALSE)},
      {OrderRow(1, 100, TRUE, FALSE)},
      {OrderRow(1, 40, FALSE, TRUE)},
      {OrderRow(1, 100, TRUE, FALSE), OrderRow(2, 98, FALSE, FALSE)} }

InitOrderButtons ==
    /\ impl \in {"mono", "pkg"}
    /\ orders \in OrderTables
    /\ user = [NewUser EXCEPT
                  !.clicks_total = 200,
                  !.orders_completed = Cardinality({o \in orders : o.finished}),
                  !.xp = 10 * Cardinality({o \in orders : o.finished}),
                  !.balance = 200 + 60 * Cardinality({o \in orders : o.finished})]
    /\ nextOrderId = Cardinality(orders) + 1
    /\ boosts = NoBoosts
    /\ team = NoTeam
    /\ items = {}
    /\ equip = NoEquip(impl)
    /\ skills = {}
    /\ prestige = [reputation |-> 0, resets |-> 0]
    /\ ach = NoAchievements
    /\ announced = NoneAnnounced
    /\ fsm \in {FsmClear,
                [FsmClear EXCEPT !.state = "orders.confirm", !.order_id = 1,
                                 !.req = SEED_ORDERS[1].base_clicks]}
    /\ now = 0
    /\ buffs = << >>
    /\ log = << >>
    /\ refusal = "none"
    /\ probe = None

NextOrderButtons ==
    \/ handle_click
    \/ profile_cancel_order
    \/ take_order

SpecOrderButtons == InitOrderButtons /\ [][NextOrderButtons]_vars

----------------------------------------------------------------------------
(* A player taken over from the package.  Both programs default to the same  *)
(* database file and ensure_schema adds the monolith's columns to an older   *)
(* users table, so the monolith serves players whose team was hired under    *)
(* the package; its own tables (achievements, prestige, skills) start empty. *)

InitMigrated ==
    /\ impl = "mono"
    /\ user = [NewUser EXCEPT !.balance = 4950, !.level = 3, !.xp = 120]
    /\ boosts = NoBoosts
    /\ team = [m \in MemberIds |-> IF m = 1 THEN 1 ELSE 0]
    /\ items = {}
    /\ equip = NoEquip("mono")
    /\ skills = {}
    /\ prestige = [reputation |-> 0, resets |-> 0]
    /\ ach = NoAchievements
    /\ announced = NoneAnnounced
    /\ InitCommon

NextMigrated ==
    \/ Tick
    \/ back_to_menu
    \/ handle_click
    \/ profile_daily
    \/ shop_root
    \/ shop_boosts
    \/ shop_choose_boost
    \/ shop_buy_boost
    \/ team_root

SpecMigrated == InitMigrated /\ [][NextMigrated]_vars

----------------------------------------------------------------------------
(* The boost shop on its own: the Buy button of a confirmation for either   *)
(* of two boosts, at every owned level below the bound and with balances on  *)
(* both sides of each cost.                                                  *)

BoostBalances == {99, 100, 124, 125, 155, 156, 400, 1000}

InitBoostShop ==
    /\ impl \in {"mono", "pkg"}
    /\ user \in {[NewUser EXCEPT !.balance = b] : b \in BoostBalances}
    /\ boosts \in {[b \in BoostIds |-> IF b = 1 THEN n ELSE 0] : n \in 0..(MaxBoostLevel - 1)}
    /\ team = NoTeam
    /\ items = {}
    /\ equip = NoEquip(impl)
    /\ skills = {}
    /\ prestige = [reputation |-> 0, resets |-> 0]
    /\ ach = NoAchievements
    /\ announced = NoneAnnounced
    /\ fsm \in {[FsmClear EXCEPT !.state = "shop.confirm_boost", !.boost_id = bid] :
                   bid \in {1, 2}}
    /\ now = 0
    /\ orders = {}
    /\ nextOrderId = 1
    /\ buffs = << >>
    /\ log = << >>
    /\ refusal = "none"
    /\ probe = None

NextBoostShop ==
    \/ shop_root
    \/ shop_boosts
    \/ shop_choose_boost
    \/ shop_buy_boost

SpecBoostShop == InitBoostShop /\ [][NextBoostShop]_vars

----------------------------------------------------------------------------
(* /start on its own.  probe counts the rows of the identity: users is the  *)
(* number of User rows, slots the number of UserEquipment rows.  With no    *)
(* User row the variable user holds NoUserRow and the other tables are      *)
(* empty.                                                                    *)

NoUserRow == [f \in DOMAIN NewUser |-> None]

\* the rows a new identity gets: the User row, one UserEquipment row per slot
\* with item_id None (and the monolith's UserPrestige row)
CreateUser(i, d, t) ==
    [d EXCEPT !.user = [NewUser EXCEPT !.last_seen = t],
              !.equip = NoEquip(i),
              !.prestige = [reputation |-> 0, resets |-> 0]]

\* a get-or-create that inserts without looking for the row
CreateAgain(i, d, rows, t) ==
    [d |-> CreateUser(i, d, t),
     rows |-> [users |-> rows.users + 1, slots |-> rows.slots + Len(Slots(i))]]

\* get_or_create_user (monolith) / ensure_user (package)
get_or_create_user(i, d, rows, t) ==
    IF rows.users = 0
    THEN [d |-> CreateUser(i, d, t),
          rows |-> [users |-> 1, slots |-> Len(Slots(i))]]
    ELSE [d |-> apply_offline_income(i, d, t).d, rows |-> rows]

StartBalances == {0, 200, 640, 5000}

StartPlayers ==
    {[NewUser EXCEPT !.balance = b, !.level = l, !.xp = x] :
        b \in StartBalances, l \in {1, 4}, x \in {0, 99}}

InitStart ==
    /\ impl \in {"mono", "pkg"}
    /\ probe \in {[users |-> 0, slots |-> 0], [users |-> 1, slots |-> Len(Slots(impl))]}
    /\ user \in IF probe.users = 0 THEN {NoUserRow} ELSE StartPlayers
    /\ boosts \in IF probe.users = 0 THEN {NoBoosts}
                  ELSE {NoBoosts, [b \in BoostIds |-> IF b = 3 THEN 1 ELSE 0]}
    /\ team \in IF probe.users = 0 THEN {NoTeam}
                ELSE {NoTeam, [m \in MemberIds |-> IF m = 1 THEN 2 ELSE 0]}
    /\ items \in IF probe.users = 0 THEN {{}} ELSE {{}, {"laptop_t1"}}
    /\ equip = IF items = {} THEN NoEquip(impl)
               ELSE [NoEquip(impl) EXCEPT !["laptop"] = "laptop_t1"]
    /\ skills = {}
    /\ prestige = [reputation |-> 0, resets |-> 0]
    /\ ach = NoAchievements
    /\ announced = NoneAnnounced
    /\ now = 0
    /\ orders = {}
    /\ nextOrderId = 1
    /\ buffs = << >>
    /\ log = << >>
    /\ fsm = FsmClear
    /\ refusal = "none"

\* time passes between two messages
StartTick ==
    /\ \E t \in DailyInstants : t > now /\ now' = t
    /\ UNCHANGED <<impl, user, orders, nextOrderId, boosts, team, items, equip,
                   buffs, skills, prestige, ach, announced, log, fsm, refusal,
                   probe>>

\* cmd_start: get-or-create; the monolith opens the tutorial for a new player
cmd_start ==
    /\ LogRoom
    /\ \E r \in {get_or_create_user(impl, Db, probe, now)} :
          /\ Commit(r.d)
          /\ probe' = r.rows
          /\ fsm' = IF impl = "mono" /\ probe.users = 0
                    THEN [FsmClear EXCEPT !.state = "tutorial.step"]
                    ELSE fsm
    /\ UNCHANGED <<impl, now, refusal>>

NextStart ==
    \/ StartTick
    \/ cmd_start

SpecStart == InitStart /\ [][NextStart]_vars

----------------------------------------------------------------------------
(* One player writing to the bot in two chats.  The rows belong to the      *)
(* player (tg_id), the FSM state and data to the pair of chat and user:     *)
(* fsm is the dialog of the chat the next message comes from and probe the  *)
(* dialog of the other chat.                                                 *)

InitTwoChats ==
    /\ impl \in {"mono", "pkg"}
    /\ user \in {[NewUser EXCEPT !.balance = 500, !.level = 4, !.xp = x,
                                 !.orders_completed = 12, !.clicks_total = 1900] :
                    x \in {1000, 1590}}
               \cup {[NewUser EXCEPT !.balance = 4470, !.level = 20, !.xp = 150,
                                     !.orders_completed = 60, !.clicks_total = 9000]}
    /\ boosts = [b \in BoostIds |-> IF b = 1 THEN 59 ELSE 0]
    /\ team = NoTeam
    /\ items = {}
    /\ equip = NoEquip(impl)
    /\ skills = {}
    /\ prestige = [reputation |-> 0, resets |-> 0]
    /\ ach = NoAchievements
    /\ announced = NoneAnnounced
    /\ now = 0
    /\ orders = {}
    /\ nextOrderId = 1
    /\ buffs = << >>
    /\ log = << >>
    /\ fsm = FsmClear
    /\ refusal = "none"
    /\ probe = FsmClear

\* the next message comes from the other chat
switch_chat ==
    /\ fsm' = probe
    /\ probe' = fsm
    /\ UNCHANGED <<impl, now, user, orders, nextOrderId, boosts, team, items,
                   equip, buffs, skills, prestige, ach, announced, log, refusal>>

\* orders with a level gate above 1
GatedChoices == {3}

\* choose_order for a gated order of the page
choose_gated_order ==
    /\ LogRoom
    /\ fsm.state = "orders.browsing"
    /\ \E order_id \in fsm.order_ids \cap GatedChoices :
          \/ impl = "mono" /\ mono_choose_order(order_id)
          \/ impl = "pkg" /\ pkg_orders_choose(order_id)

NextTwoChats ==
    \/ switch_chat
    \/ orders_root
    \/ choose_order
    \/ choose_gated_order
    \/ take_order
    \/ handle_click
    \/ show_studio
    \/ confirm_studio

SpecTwoChats == InitTwoChats /\ [][NextTwoChats]_vars

----------------------------------------------------------------------------
(* Two Take messages of one player handled as overlapping tasks.  Each      *)
(* handler is split at its awaits: it reads the FSM data, checks            *)
(* ensure_no_active_order in its own session, and inserts the UserOrder     *)
(* when its session commits.  probe holds, per message, the position of the *)
(* handler and the data it read.                                            *)

Handlers == {1, 2}

HandlersIdle == [pc |-> [h \in Handlers |-> "idle"],
                 data |-> [h \in Handlers |-> FsmClear]]

InitOverlap ==
    /\ impl \in {"mono", "pkg"}
    /\ user \in {[NewUser EXCEPT !.balance = b, !.level = l] :
                    b \in {200, 500}, l \in {1, 3}}
    /\ boosts \in {NoBoosts, [b \in BoostIds |-> IF b = 1 THEN 59 ELSE 0]}
    /\ team = NoTeam
    /\ items = {}
    /\ equip = NoEquip(impl)
    /\ skills = {}
    /\ prestige = [reputation |-> 0, resets |-> 0]
    /\ ach = NoAchievements
    /\ announced = NoneAnnounced
    /\ now = 0
    /\ orders = {}
    /\ nextOrderId = 1
    /\ buffs = << >>
    /\ log = << >>
    /\ fsm = FsmClear
    /\ refusal = "none"
    /\ probe = HandlersIdle

\* the dispatcher matched OrdersState.confirm and the handler read the data
take_order_begin(h) ==
    /\ probe.pc[h] = "idle"
    /\ fsm.state = "orders.confirm"
    /\ probe' = [probe EXCEPT !.pc[h] = "started", !.data[h] = fsm]
    /\ UNCHANGED <<impl, now, user, orders, nextOrderId, boosts, team, items,
                   equip, buffs, skills, prestige, ach, announced, log, fsm,
                   refusal>>

\* ensure_no_active_order in the handler's session
take_order_check(h) ==
    /\ probe.pc[h] = "started"
    /\ IF ensure_no_active_order(Db)
       THEN /\ probe' = [probe EXCEPT !.pc[h] = "checked"]
            /\ UNCHANGED <<user, orders, nextOrderId, boosts, team, items, equip,
                           buffs, skills, prestige, ach, announced, log, fsm,
                           refusal>>
       ELSE /\ probe' = [probe EXCEPT !.pc[h] = "refused"]
            /\ Commit(IF impl = "mono" THEN Db ELSE PkgEnsureUser(Db))
            /\ fsm' = FsmClear
            /\ refusal' = "ORDER_ALREADY"
    /\ UNCHANGED <<impl, now>>

\* session.add(UserOrder(...)), the commit of the session and state.clear()
take_order_insert(h) ==
    /\ probe.pc[h] = "checked"
    /\ nextOrderId <= MaxOrders
    /\ \E d \in {IF impl = "mono" THEN purge_expired_buffs("mono", Db, now)
                 ELSE PkgEnsureUser(Db)} :
          Commit([d EXCEPT
                    !.orders = @ \cup {NewUserOrder(d.nextOrderId,
                                                    probe.data[h].order_id,
                                                    probe.data[h].req,
                                                    get_user_stats(impl, d, now).reward_mul_total)},
                    !.nextOrderId = @ + 1])
    /\ probe' = [probe EXCEPT !.pc[h] = "done"]
    /\ fsm' = FsmClear
    /\ refusal' = "none"
    /\ UNCHANGED <<impl, now>>

NextOverlap ==
    \/ orders_root
    \/ choose_order
    \/ \E h \in Handlers : take_order_begin(h)
    \/ \E h \in Handlers : take_order_check(h)
    \/ \E h \in Handlers : take_order_insert(h)
    \/ handle_click

SpecOverlap == InitOverlap /\ [][NextOverlap]_vars

----------------------------------------------------------------------------
(* Passive income of one interval collected in one or in two touchpoints,   *)
(* at a constant rate and within the 12 hours.                              *)

SplitInstants == {30, 60, 120, 150, 600, 665, 6985, MAX_OFFLINE_SECONDS}

SplitTeams ==
    { [NoTeam EXCEPT ![1] = 1],
      [NoTeam EXCEPT ![2] = 2],
      [NoTeam EXCEPT ![3] = 1],
      [NoTeam EXCEPT ![1] = 1, ![4] = 1] }

InitSplit ==
    /\ impl \in {"mono", "pkg"}
    /\ now = 0
    /\ user = NewUser
    /\ boosts = NoBoosts
    /\ team \in SplitTeams
    /\ items = {}
    /\ equip = NoEquip(impl)
    /\ skills = {}
    /\ prestige = [reputation |-> 0, resets |-> 0]
    /\ ach = NoAchievements
    /\ announced = NoneAnnounced
    /\ orders = {}
    /\ nextOrderId = 1
    /\ buffs = << >>
    /\ log = << >>
    /\ fsm = FsmClear
    /\ refusal = "none"
    /\ probe = [gained |-> None, cap |-> None, calls |-> 0]

\* time passes between two touchpoints
SplitTick ==
    /\ \E t \in SplitInstants : t > now /\ now' = t
    /\ UNCHANGED <<impl, user, orders, nextOrderId, boosts, team, items, equip,
                   buffs, skills, prestige, ach, announced, log, fsm, refusal,
                   probe>>

NextSplit ==
    \/ SplitTick
    \/ call_apply_offline_income

SpecSplit == InitSplit /\ [][NextSplit]_vars

----------------------------------------------------------------------------
(* RateLimiter: the sliding window of accepted click timestamps kept per    *)
(* Telegram user.  time.monotonic() is counted in ticks, TicksPerSecond to  *)
(* the second, so that a difference of exactly 1.0 s is a whole number.     *)

TicksPerSecond == 2
DequeMaxLen == 100
MaxClock == 4
LimiterUsers == {1, 2}
\* get_user_click_limit returns max(1, min(MAX_CLICK_LIMIT, limit))
LimitChoices == {1, 2, 3}

\* t - dq[0] >= 1.0   (not the code: the bound included)
StaleAtWindow(t, first) == t - first >= TicksPerSecond

\* t - dq[0] > 1.0
Stale(t, first) == t - first > TicksPerSecond

\* while dq and t - dq[0] > 1.0: dq.popleft()
RECURSIVE Evict(_, _)
Evict(dq, t) ==
    IF dq # << >> /\ Stale(t, dq[1]) THEN Evict(Tail(dq), t)
    ELSE dq

\* deque(maxlen=100).append: a full deque drops its oldest element
DequeAppend(dq, t) ==
    IF Len(dq) >= DequeMaxLen THEN Append(Tail(dq), t) ELSE Append(dq, t)

\* RateLimiter.allow(user_id, limit_per_sec, now=t)
allow(events, user_id, limit_per_sec, t) ==
    LET dq == Evict(events[user_id], t) IN
    IF Len(dq) >= limit_per_sec
    THEN [events |-> [events EXCEPT ![user_id] = dq], ok |-> FALSE]
    ELSE [events |-> [events EXCEPT ![user_id] = DequeAppend(dq, t)], ok |-> TRUE]

InitLimiter ==
    /\ impl \in {"mono", "pkg"}
    /\ now = 0
    /\ user = NewUser
    /\ boosts = NoBoosts
    /\ team = NoTeam
    /\ items = {}
    /\ equip = NoEquip(impl)
    /\ skills = {}
    /\ prestige = [reputation |-> 0, resets |-> 0]
    /\ ach = NoAchievements
    /\ announced = NoneAnnounced
    /\ orders = {}
    /\ nextOrderId = 1
    /\ buffs = << >>
    /\ log = << >>
    /\ fsm = FsmClear
    /\ refusal = "none"
    /\ \E lim \in [LimiterUsers -> LimitChoices] :
          probe = [limit |-> lim, clock |-> 0,
                   events |-> [u \in LimiterUsers |-> << >>],
                   accepted |-> [u \in LimiterUsers |-> << >>],
                   caller |-> None, ok |-> FALSE]

\* the monotonic clock advances between two messages
LimiterTick ==
    /\ probe.clock < MaxClock
    /\ probe' = [probe EXCEPT !.clock = @ + 1]
    /\ UNCHANGED <<impl, now, user, orders, nextOrderId, boosts, team, items,
                   equip, buffs, skills, prestige, ach, announced, log, fsm,
                   refusal>>

\* RateLimitMiddleware.__call__ for a click of tg_id: limiter.allow(tg_id, limit)
call_allow ==
    /\ \E tg_id \in LimiterUsers :
          \E r \in {allow(probe.events, tg_id, probe.limit[tg_id], probe.clock)} :
             probe' = [probe EXCEPT
                          !.events = r.events,
                          !.accepted[tg_id] = IF r.ok THEN Append(@, probe.clock) ELSE @,
                          !.caller = tg_id,
                          !.ok = r.ok]
    /\ UNCHANGED <<impl, now, user, orders, nextOrderId, boosts, team, items,
                   equip, buffs, skills, prestige, ach, announced, log, fsm,
                   refusal>>

NextLimiter ==
    \/ LimiterTick
    \/ call_allow

SpecLimiter == InitLimiter /\ [][NextLimiter]_vars

----------------------------------------------------------------------------
(* snapshot_required_clicks over base requirements, levels and reductions   *)
(* beyond what the seeded orders and items produce                          *)

SnapshotBases == {0, 1, 2, 3, 7, 100}
SnapshotLevels == {1, 4, 5, 20}
\* thousandths: get_user_stats returns max(0.0, req_clicks_pct), unbounded above
SnapshotReductions == {0, 90, 500, 990, 1000, 1250}
SnapshotProgress == {0, 1, 5}

InitSnapshot ==
    /\ impl \in {"mono", "pkg"}
    /\ now = 0
    /\ user = NewUser
    /\ boosts = NoBoosts
    /\ team = NoTeam
    /\ items = {}
    /\ equip = NoEquip(impl)
    /\ skills = {}
    /\ prestige = [reputation |-> 0, resets |-> 0]
    /\ ach = NoAchievements
    /\ announced = NoneAnnounced
    /\ orders = {}
    /\ nextOrderId = 1
    /\ buffs = << >>
    /\ log = << >>
    /\ fsm = FsmClear
    /\ refusal = "none"
    /\ \E b \in SnapshotBases, l \in SnapshotLevels, r \in SnapshotReductions :
          probe = [base_clicks |-> b, level |-> l, req_clicks_pct |-> r,
                   required_clicks |-> None, progress_clicks |-> 0, pct |-> None]

\* take_order: required_clicks = snapshot_required_clicks(...), progress_clicks = 0
call_snapshot_required_clicks ==
    /\ probe.required_clicks = None
    /\ probe' = [probe EXCEPT !.required_clicks =
                    snapshot_required_clicks(probe.base_clicks, probe.level,
                                             probe.req_clicks_pct)]
    /\ UNCHANGED <<impl, now, user, orders, nextOrderId, boosts, team, items,
                   equip, buffs, skills, prestige, ach, announced, log, fsm,
                   refusal>>

\* handle_click: progress = min(required, progress + cp);
\* pct = int(100 * progress_clicks / required_clicks)
click_progress_pct ==
    /\ probe.required_clicks # None
    /\ probe.pct = None
    /\ \E cp \in SnapshotProgress :
          \E prog \in {NextProgress(probe.required_clicks, probe.progress_clicks, cp)} :
             probe' = [probe EXCEPT !.progress_clicks = prog,
                                    !.pct = (100 * prog) \div probe.required_clicks]
    /\ UNCHANGED <<impl, now, user, orders, nextOrderId, boosts, team, items,
                   equip, buffs, skills, prestige, ach, announced, log, fsm,
                   refusal>>

NextSnapshot ==
    \/ call_snapshot_required_clicks
    \/ click_progress_pct

SpecSnapshot == InitSnapshot /\ [][NextSnapshot]_vars

----------------------------------------------------------------------------
(* add_xp_and_levelup statement by statement: the while loop one iteration  *)
(* at a time, with the iterations counted                                   *)

\* an iteration that forgets lvl += 1 (not the code)
LoopBodyKeepsLevel(lvl, xp) == <<lvl, xp - xp_to_level(lvl)>>

\* user.xp -= xp_to_level(lvl); lvl += 1
LoopBody(lvl, xp) == <<lvl + 1, xp - xp_to_level(lvl)>>

RECURSIVE ThresholdsBetween(_, _)
\* xp_to_level(from) + ... + xp_to_level(to - 1)
ThresholdsBetween(from, to) ==
    IF from >= to THEN 0 ELSE xp_to_level(from) + ThresholdsBetween(from + 1, to)

InitLoop ==
    /\ impl \in {"mono", "pkg"}
    /\ now = 0
    /\ \E st \in XpStarts, g \in XpGrants :
          /\ user = [NewUser EXCEPT !.level = st[1], !.xp = st[2]]
          /\ probe = [start |-> [NewUser EXCEPT !.level = st[1], !.xp = st[2]],
                      xp_gain |-> g, pc |-> "call", lvl |-> None,
                      iterations |-> 0]
    /\ boosts = NoBoosts
    /\ team = NoTeam
    /\ items = {}
    /\ equip = NoEquip(impl)
    /\ skills = {}
    /\ prestige = [reputation |-> 0, resets |-> 0]
    /\ ach = NoAchievements
    /\ announced = NoneAnnounced
    /\ orders = {}
    /\ nextOrderId = 1
    /\ buffs = << >>
    /\ log = << >>
    /\ fsm = FsmClear
    /\ refusal = "none"

\* user.xp += xp_gain; lvl = user.level
loop_enter ==
    /\ probe.pc = "call"
    /\ user' = [user EXCEPT !.xp = @ + probe.xp_gain]
    /\ probe' = [probe EXCEPT !.pc = "while", !.lvl = user.level]
    /\ UNCHANGED <<impl, now, orders, nextOrderId, boosts, team, items, equip,
                   buffs, skills, prestige, ach, announced, log, fsm,
                   refusal>>

\* while user.xp >= xp_to_level(lvl): one pass through the body
loop_iterate ==
    /\ probe.pc = "while"
    /\ user.xp >= xp_to_level(probe.lvl)
    /\ \E r \in {LoopBody(probe.lvl, user.xp)} :
          /\ user' = [user EXCEPT !.xp = r[2]]
          /\ probe' = [probe EXCEPT !.lvl = r[1], !.iterations = @ + 1]
    /\ UNCHANGED <<impl, now, orders, nextOrderId, boosts, team, items, equip,
                   buffs, skills, prestige, ach, announced, log, fsm,
                   refusal>>

\* the condition fails: user.level = lvl; return
loop_exit ==
    /\ probe.pc = "while"
    /\ user.xp < xp_to_level(probe.lvl)
    /\ user' = [user EXCEPT !.level = probe.lvl]
    /\ probe' = [probe EXCEPT !.pc = "return"]
    /\ UNCHANGED <<impl, now, orders, nextOrderId, boosts, team, items, equip,
                   buffs, skills, prestige, ach, announced, log, fsm,
                   refusal>>

NextLoop ==
    \/ loop_enter
    \/ loop_iterate
    \/ loop_exit

\* the function has no await: once called it runs to its return
SpecLoop == InitLoop /\ [][NextLoop]_vars /\ WF_vars(NextLoop)

----------------------------------------------------------------------------
(* Properties *)

HasLogRow(type) == \E k \in DOMAIN log : log[k].type = type

\* C1: after any sequence of player actions the player has at most one order
\* assignment that is neither finished nor canceled.
C1_OneActiveOrder == Cardinality(ActiveOrders(Db)) <= 1

\* two assignments were created, and exactly one of them is in progress
C1_Witness == nextOrderId > 2 /\ Cardinality(ActiveOrders(Db)) = 1

\* C2: an assignment's required_clicks never changes after take_order, and
\* the order_finish entry written by the completing click carries the reward
\* computed from the multiplier stored on the assignment.
C2_SnapshotDecidesReward ==
    [][\A o \in orders : \A o2 \in orders' :
          (o2.id = o.id) =>
             /\ o2.required_clicks = o.required_clicks
             /\ (~o.finished /\ o2.finished) =>
                   \E k \in DOMAIN log' :
                      /\ k > Len(log)
                      /\ log'[k].type = "order_finish"
                      /\ log'[k].amount = FinishReward(impl, o.required_clicks,
                                                       o.reward_snapshot_mul)]_vars

\* C3: the balance is never negative.
C3_BalanceNonNegative == user.balance >= 0

\* a random-event penalty larger than the balance was applied: the log has
\* the full penalty, the balance stopped at 0
C3_Witness ==
    /\ user.balance = 0
    /\ \E k \in DOMAIN log :
          log[k].type = "event_penalty" /\ 0 - log[k].amount > VeteranUser.balance

\* C4: progress_clicks of an assignment never exceeds its required_clicks.
C4_ProgressWithinRequired ==
    \A o \in orders : o.progress_clicks <= o.required_clicks

\* an order was completed by a click whose power overshoots the remainder
C4_Witness ==
    \E o \in orders :
        /\ o.finished
        /\ o.progress_clicks = o.required_clicks
        /\ o.required_clicks % get_user_stats(impl, Db, now).cp # 0

\* C5: get_user_stats returns a click power of at least 1 for every
\* combination of boosts, equipment, skills, live buffs and reputation,
\* negative modifiers included.
C5_ClickPowerFloor == probe.cp # None => probe.cp >= 1

\* the monolith computed the click power of a player with a cp boost under
\* a buff of less than -100 %: the product is negative, the result is 1
C5_Witness ==
    /\ impl = "mono"
    /\ probe.cp = 1
    /\ boosts[1] > 0
    /\ Len(buffs) > 0
    /\ buffs[1].payload.cp_pct < 0 - 1000

\* C6: level >= 1 and 0 <= xp < xp_to_level(level) in every state.
C6_XpNormalized ==
    /\ user.level >= 1
    /\ user.xp >= 0
    /\ user.xp < xp_to_level(user.level)

\* the player crossed into a new level on completing an order and then took
\* the -100 XP penalty with less than 100 XP: the XP stopped at 0
C6_Witness ==
    /\ user.level > VeteranUser.level
    /\ user.xp = 0
    /\ HasLogRow("order_finish")
    /\ \E k \in DOMAIN log : log[k].type = "event_penalty" /\ log[k].amount = 0

\* C7: finish_order_reward(required, m) = finish_order_reward(required, 1.0)
\* for every 0 <= m <= 1.0 and required >= 1, and finish_order_reward(100, m)
\* is 60 for these m.
C7_RewardFloor ==
    probe.reward # None =>
       /\ probe.reward = probe.at_one
       /\ probe.required = 100 => probe.reward = 60

\* C8: one call of apply_offline_income credits at most what 12 hours are
\* worth at the rate of the call.
C8_OfflineCap == probe.gained # None => probe.gained <= probe.cap

\* C9: a call of apply_offline_income leaves last_seen at the current time,
\* whatever it credits, and a second call at the same instant returns 0 and
\* changes nothing: balance, passive_income_collected and the log stay.
C9_LastSeenMoves ==
    LET r == apply_offline_income(impl, Db, now)
    IN  /\ r.d.user.last_seen = now
        /\ apply_offline_income(impl, r.d, now) = [d |-> r.d, gained |-> 0]

\* time has passed, a player without income was touched: last_seen moved
\* although nothing was credited
C9_Witness ==
    /\ now > 0
    /\ user.last_seen = now
    /\ TeamPerMinQ(Db) = 0
    /\ ~HasLogRow("passive")

\* C10: an unlocked_at that is set stays as it is in every step.
C10_UnlockedAtKept ==
    [][\A a \in AchIds :
          (ach[a].row /\ ach[a].unlocked_at # None) =>
             (ach'[a].row /\ ach'[a].unlocked_at = ach[a].unlocked_at)]_vars

\* after a prestige reset the click counter is below the threshold of an
\* achievement unlocked before it, clicks were evaluated again, and the
\* achievement still has its first unlocked_at
C10_Witness ==
    /\ prestige.resets > 12
    /\ user.clicks_total > 0
    /\ user.clicks_total < SEED_ACHIEVEMENTS[1].threshold
    /\ ach[1].row
    /\ ach[1].unlocked_at = 0
    /\ now > 0

\* C11: over the whole run notify_new_achievements has listed every notified
\* achievement exactly once and no other achievement at all, also when
\* evaluate_achievements ran several times within one action.
C11_ListedOnce ==
    \A a \in AchIds :
        announced[a] = IF ach[a].row /\ ach[a].notified THEN 1 ELSE 0

\* the sum of the amounts of the rows of l from position k on
RECURSIVE LogAmounts(_, _)
LogAmounts(l, k) == IF k > Len(l) THEN 0 ELSE l[k].amount + LogAmounts(l, k + 1)

\* C12: the economy log only grows, and in every step the balance changes by
\* exactly the sum of the amounts of the rows the step appends (so the
\* balance is the starting balance plus the sum of the log).
C12_LedgerMatchesBalance ==
    [][/\ Len(log') >= Len(log)
       /\ SubSeq(log', 1, Len(log)) = log
       /\ user'.balance - user.balance = LogAmounts(log', Len(log) + 1)]_vars

\* C13: after any number of grants the player's (level, xp) is what a single
\* grant of their total gives from the same start; one grant of 5500 and the
\* five grants 100, 400, 900, 1600, 2500 both take level 1, xp 0 to level 6,
\* xp 0.
C13_GrantsAdd ==
    /\ user = add_xp_and_levelup(probe.start, probe.total)
    /\ (/\ probe.start.level = 1
        /\ probe.start.xp = 0
        /\ probe.total = 5500) => (user.level = 6 /\ user.xp = 0)

\* the five separate grants have been applied to a new player
C13_Witness ==
    /\ probe.grants = <<100, 400, 900, 1600, 2500>>
    /\ probe.applied = 5
    /\ probe.start.level = 1
    /\ probe.start.xp = 0
    /\ user.level = 6
    /\ user.xp = 0

\* C14: a new player's first order (base_clicks 100) is created with
\* required_clicks 100, every click adds exactly 1 to its progress, it is
\* finished by the click that brings the progress to 100, and right after
\* that click balance = 260, xp = 10 and level = 1.
C14_FirstOrder ==
    [][\A o2 \in orders' :
          (o2.id = 1) =>
             /\ o2.required_clicks = 100
             /\ o2.finished <=> o2.progress_clicks = 100
             /\ \A o \in orders :
                   (o.id = 1) =>
                      /\ o2.progress_clicks \in {o.progress_clicks, o.progress_clicks + 1}
                      /\ (~o.finished /\ o2.finished) =>
                            /\ user'.balance = 260
                            /\ user'.xp = 10
                            /\ user'.level = 1]_vars

\* the rows a purchase handler reads once its session has paid the passive income
Seen == IF impl = "mono" THEN MonoSession.d ELSE PkgEnsureUser(Db)

Purchases == {"buy_boost", "buy_item", "team_upgrade"}

\* this step deducts nothing, changes no boost level, team level or item
\* ownership and appends no purchase entry to the economy log
NothingBought ==
    /\ user'.balance = Seen.user.balance
    /\ boosts' = boosts
    /\ team' = team
    /\ items' = items
    /\ Len(log') >= Len(log)
    /\ \A k \in (Len(log) + 1)..Len(log') : log'[k].type \notin Purchases

\* C15: a boost purchase, an item purchase or a team upgrade whose cost exceeds
\* the balance, and an item purchase of an item already owned, deducts nothing,
\* changes no boost level, team level or item ownership and appends no
\* buy_boost / buy_item / team_upgrade entry to the economy log
C15_RefusedPurchase ==
    [][/\ (shop_buy_boost /\ Seen.user.balance < BoostCost(Seen, fsm.boost_id))
            => NothingBought
       /\ (shop_buy_item /\ \/ fsm.item_code \in Seen.items
                            \/ Seen.user.balance < ItemByCode(impl, fsm.item_code).price)
            => NothingBought
       /\ (team_upgrade /\ Seen.user.balance < MemberCost(Seen, fsm.member_id))
            => NothingBought]_vars

\* a purchase has just been refused for lack of funds and the shop is shown again
C15_Witness ==
    /\ refusal = "INSUFFICIENT_FUNDS"
    /\ \/ impl = "mono" /\ fsm.state \in {"shop.boosts", "shop.equipment", "team.browsing"}
       \/ impl = "pkg" /\ fsm = FsmClear
    /\ \E k \in DOMAIN log : log[k].type \in Purchases

\* every item a slot refers to has a UserItem row
EquippedOwned == \A sl \in DOMAIN equip : equip[sl] # NoItem => equip[sl] \in items

\* C16: in every reachable state every item referenced by an equipment slot is
\* owned by the player, and an equip request for an item the player does not
\* own leaves all slots unchanged
C16_WornIsOwned ==
    /\ []EquippedOwned
    /\ [][(wardrobe_equip /\ fsm.item_code \notin items) => equip' = equip]_vars

\* the Equip button was refused for an item without a UserItem row while
\* another item is worn
C16_Witness ==
    /\ refusal = "EQUIP_NOITEM"
    /\ \E sl \in DOMAIN equip : equip[sl] # NoItem

\* this step appends a daily_bonus entry to the economy log
DailyLogged ==
    /\ Len(log') > Len(log)
    /\ \E k \in (Len(log) + 1)..Len(log') : log'[k].type = "daily_bonus"

\* C17: any two granted daily bonuses of the same player are at least 24 hours
\* apart (daily_bonus_at always holds the instant of the last grant, and a
\* grant happens only 24 hours or more after it); a claim made earlier adds no
\* bonus to the balance, keeps daily_bonus_at and daily_bonus_claims and
\* appends no daily_bonus entry
C17_DailySpacing ==
    [][/\ DailyLogged =>
            /\ user.daily_bonus_at = None \/ now' - user.daily_bonus_at >= DAY_SECONDS
            /\ user'.daily_bonus_at = now'
       /\ user'.daily_bonus_at # user.daily_bonus_at => DailyLogged
       /\ (profile_daily /\ user.daily_bonus_at # None
                         /\ now - user.daily_bonus_at < DAY_SECONDS) =>
            /\ user'.balance = Seen.user.balance
            /\ user'.daily_bonus_at = user.daily_bonus_at
            /\ user'.daily_bonus_claims = user.daily_bonus_claims
            /\ ~DailyLogged]_vars

\* a second bonus was granted, and a claim one hour after it has been refused
C17_Witness ==
    /\ refusal = "DAILY_WAIT"
    /\ user.daily_bonus_at >= DAY_SECONDS
    /\ now - user.daily_bonus_at = 3600
    /\ Cardinality({k \in DOMAIN log : log[k].type = "daily_bonus"}) = 2

\* the rows profile_cancel_order reads: the monolith's handler credits no
\* passive income, the package's ensure_user does
CancelSeen == IF impl = "mono" THEN Db ELSE PkgEnsureUser(Db)

\* C18: canceling the active order marks exactly that assignment canceled and
\* grants no reward and no refund: balance, XP, level and orders_completed are
\* unchanged by the cancel and no economy log entry is appended; afterwards
\* the player has no active order and a new order can be taken
C18_CancelOnlyCancels ==
    [][/\ (profile_cancel_order /\ HasActive(CancelSeen)) =>
            /\ orders' = (orders \ {get_active_order(CancelSeen)})
                            \cup {[get_active_order(CancelSeen) EXCEPT !.canceled = TRUE]}
            /\ user'.balance = CancelSeen.user.balance
            /\ user'.xp = user.xp
            /\ user'.level = user.level
            /\ user'.orders_completed = user.orders_completed
            /\ log' = CancelSeen.log
            /\ \A o \in orders' : o.finished \/ o.canceled
       /\ (take_order /\ \A o \in orders : o.finished \/ o.canceled) =>
            \E o2 \in orders' \ orders : ~o2.finished /\ ~o2.canceled]_vars

\* an order with clicks on it was canceled and the next one has been taken
C18_Witness ==
    \E o \in orders : \E o2 \in orders :
        /\ o.canceled /\ ~o.finished /\ o.progress_clicks > 0
        /\ o2.id > o.id /\ ~o2.canceled /\ ~o2.finished

\* this step creates, modifies and terminates no assignment and keeps the
\* click counter, XP, level and the number of completed orders
NothingOrdered ==
    /\ orders' = orders
    /\ nextOrderId' = nextOrderId
    /\ user'.clicks_total = user.clicks_total
    /\ user'.xp = user.xp
    /\ user'.level = user.level
    /\ user'.orders_completed = user.orders_completed

\* C19: a click or a cancel issued while the player has no active order, and a
\* take-order attempt while an order is active, is rejected without creating,
\* modifying or terminating any assignment and without changing clicks_total,
\* XP, level or orders_completed
C19_RejectedLeavesOrders ==
    [][/\ (handle_click /\ ~HasActive(Db)) =>
            (NothingOrdered /\ refusal' = "NO_ACTIVE_ORDER")
       /\ (profile_cancel_order /\ ~HasActive(Db)) =>
            (NothingOrdered /\ refusal' = "NO_ACTIVE_ORDER")
       /\ (take_order /\ HasActive(Db)) =>
            (NothingOrdered /\ refusal' = "ORDER_ALREADY")]_vars

\* the Take button was refused while an order with clicks on it is in progress
C19_Witness ==
    /\ refusal = "ORDER_ALREADY"
    /\ fsm.state = "none"
    /\ \E o \in orders : ~o.finished /\ ~o.canceled /\ o.progress_clicks > 0

\* C20: a player of level >= 2 whose balance covers the cost can upgrade a
\* team member through the team menu: the Team button opens a page whose
\* member numbers can be answered, a member number asks for confirmation, and
\* the Upgrade button raises that member's level by exactly 1 and deducts
\* int(round(base_cost * 1.22^old_level)) from the balance
C20_TeamMenuUpgrades ==
    [][/\ (team_root /\ user.level >= 2) =>
            (fsm'.state = "team.browsing" /\ fsm'.member_ids # {})
       /\ team_choose =>
            (fsm'.state = "team.confirm" /\ fsm'.member_id \in fsm.member_ids)
       /\ (team_upgrade /\ ~(Seen.user.balance < MemberCost(Seen, fsm.member_id))) =>
            /\ team' = [team EXCEPT ![fsm.member_id] = @ + 1]
            /\ user'.balance = Seen.user.balance - MemberCost(Seen, fsm.member_id)]_vars

\* the costs of levels 1, 2 and 3 of a boost with base_cost 100, growth 1.25
CpBoostCosts == <<100, 125, 156>>

\* C21: a successful boost purchase at owned level N deducts exactly
\* round(base_cost * growth^N) from the balance and raises the owned level to
\* exactly N + 1; for base_cost 100 and growth 1.25 the costs of levels 1, 2
\* and 3 are 100, 125 and 156
C21_BoostCost ==
    [][\A bid \in BoostIds :
          (shop_buy_boost /\ fsm.boost_id = bid /\ refusal' = "none") =>
             /\ boosts' = [boosts EXCEPT ![bid] = @ + 1]
             /\ user'.balance = Seen.user.balance
                                  - RoundDiv(SEED_BOOSTS[bid].base_cost
                                                * Pow(SEED_BOOSTS[bid].gnum, boosts[bid]),
                                             Pow(SEED_BOOSTS[bid].gden, boosts[bid]))
             /\ user'.balance >= 0
             /\ bid = 1 => user'.balance = Seen.user.balance - CpBoostCosts[boosts[1] + 1]]_vars

\* the third level of the click boost was bought for 156
C21_Witness ==
    /\ boosts[1] = 3
    /\ Len(log) = 1
    /\ log[1].type = "buy_boost"
    /\ log[1].amount = 0 - 156
    /\ user.balance \in {0, 400 - 156, 1000 - 156}

\* C22: get-or-create of a player is idempotent: for an identity that already
\* has a Player record it never creates a second record and never resets
\* balance, level, XP or owned upgrades (it only applies passive accrual); for
\* a new identity it creates exactly one record with balance 200, level 1,
\* XP 0, base click power 1 and one empty equipment row per slot
C22_GetOrCreate ==
    [][cmd_start =>
          /\ probe'.users = 1
          /\ probe'.slots = Cardinality(SlotSet(impl))
          /\ probe.users = 1 =>
                /\ user'.balance = user.balance + LogAmounts(log', Len(log) + 1)
                /\ \A k \in (Len(log) + 1)..Len(log') :
                      log'[k].type = "passive" /\ log'[k].amount > 0
                /\ user'.level = user.level
                /\ user'.xp = user.xp
                /\ user'.cp_base = user.cp_base
                /\ boosts' = boosts
                /\ team' = team
                /\ items' = items
                /\ equip' = equip
          /\ probe.users = 0 =>
                /\ user'.balance = 200
                /\ user'.level = 1
                /\ user'.xp = 0
                /\ user'.cp_base = 1
                /\ equip' = [sl \in SlotSet(impl) |-> NoItem]
                /\ boosts' = NoBoosts /\ team' = NoTeam /\ items' = {}
                /\ log' = << >>]_vars

\* a known player of level 4 with a team member and a boost was paid passive
\* income by /start and is still the only row
C22_Witness ==
    /\ probe.users = 1
    /\ team # NoTeam
    /\ boosts # NoBoosts
    /\ Len(log) > 0
    /\ log[1].type = "passive"
    /\ user.level = 4
    /\ user.xp = 99
    /\ user.last_seen = now

\* C23: no action, including prestige reset (which deletes the player's
\* boosts, team, items, buffs, skills and orders), deletes or modifies an
\* existing EconomyLog entry: the log only grows by appended entries
C23_LogOnlyGrows ==
    [][/\ Len(log) <= Len(log')
       /\ \A k \in 1..Len(log) : log'[k] = log[k]]_vars

\* a prestige reset has emptied the tables and the rows logged before it are
\* still in front of its own row
C23_Witness ==
    /\ Len(log) >= 2
    /\ log[Len(log)].type = "prestige_reset"
    /\ log[1].type # "prestige_reset"
    /\ orders = {}
    /\ items = {}
    /\ skills = {}
    /\ user.balance = 200
    /\ user.level = 1

\* C24: the required_clicks stored on a newly created assignment equals
\* snapshot_required_clicks(order.base_clicks, level, req_clicks_pct)
\* evaluated with the player's level and click-requirement reduction at the
\* moment take_order creates the assignment
C24_RequiredAtTake ==
    [][(take_order /\ nextOrderId' = nextOrderId + 1) =>
          \A o \in orders' \ orders :
             o.required_clicks =
                snapshot_required_clicks(SEED_ORDERS[o.order_id].base_clicks,
                                         user'.level,
                                         get_user_stats(impl, Db, now).req_clicks_pct)]_vars

\* an assignment was created with the requirement of the level the player
\* had when the order was chosen, by a player who is on a later level
C24_Witness ==
    \E o \in orders :
       /\ ~o.finished /\ ~o.canceled
       /\ o.required_clicks = 100
       /\ user.level = 5
       /\ snapshot_required_clicks(SEED_ORDERS[o.order_id].base_clicks, user.level,
                                   get_user_stats(impl, Db, now).req_clicks_pct) = 115

\* C25: every player action that mutates player state (take order, click,
\* cancel order, boost/item purchase, equip, team upgrade, daily bonus, skill
\* pick, prestige reset) applies passive accrual and sets last_seen to now
\* before its own mutations
C25_AccrualFirst ==
    [][((\/ take_order
         \/ handle_click
         \/ profile_cancel_order
         \/ shop_buy_boost
         \/ shop_buy_item
         \/ wardrobe_equip
         \/ team_upgrade
         \/ profile_daily
         \/ pick_skill
         \/ confirm_studio)
        /\ <<user, orders, boosts, team, items, equip, skills, prestige>>'
              # <<user, orders, boosts, team, items, equip, skills, prestige>>)
          => user'.last_seen = now]_vars

\* C26: completion happens in the same action as the click that makes
\* progress reach the requirement: at the end of every action, every
\* assignment with finished = false and canceled = false has
\* progress_clicks < required_clicks
C26_ActiveBelowRequirement ==
    \A o \in orders :
       (~o.finished /\ ~o.canceled) => o.progress_clicks < o.required_clicks

\* a click has brought an assignment to its requirement and finished it in
\* the same action, and a later assignment is in progress
C26_Witness ==
    /\ \E o \in orders :
          /\ o.finished
          /\ o.progress_clicks = o.required_clicks
    /\ \E k \in 1..Len(log) : log[k].type = "order_finish"
    /\ \E o \in orders :
          /\ ~o.finished /\ ~o.canceled
          /\ o.progress_clicks > 0

\* C27: no assignment ever has finished and canceled both true, and once an
\* assignment is finished or canceled its finished/canceled flags and its
\* progress_clicks never change again (a click or cancel only ever touches
\* the active assignment)
C27_ClosedStaysClosed ==
    /\ [](\A o \in orders : ~(o.finished /\ o.canceled))
    /\ [][\A o \in orders : \A o2 \in orders' :
             (o2.id = o.id /\ (o.finished \/ o.canceled)) =>
                /\ o2.finished = o.finished
                /\ o2.canceled = o.canceled
                /\ o2.progress_clicks = o.progress_clicks]_vars

\* an assignment was finished by clicks, and the next one was clicked and
\* then canceled while the finished one kept its state
C27_Witness ==
    \E o \in orders : \E o2 \in orders :
        /\ o.finished /\ ~o.canceled /\ o.progress_clicks = o.required_clicks
        /\ o2.id > o.id
        /\ o2.canceled /\ ~o2.finished /\ o2.progress_clicks > 0

\* C28: while an order is active, every accepted click either strictly
\* increases progress_clicks by at least 1 or completes the order, so the
\* order is finished after at most required_clicks accepted clicks
C28_ClickAdvances ==
    [][(handle_click /\ HasActive(Db)) =>
          \E o2 \in orders' :
             /\ o2.id = get_active_order(Db).id
             /\ ~o2.canceled
             /\ o2.required_clicks = get_active_order(Db).required_clicks
             /\ o2.progress_clicks >= get_active_order(Db).progress_clicks + 1
             /\ o2.progress_clicks <= o2.required_clicks
             /\ o2.finished <=> o2.progress_clicks = o2.required_clicks]_vars

\* the newest assignment is active and clicks have taken it past half of its
\* requirement
C28_Witness ==
    \E o \in orders :
       /\ \A p \in orders : p.id <= o.id
       /\ ~o.finished /\ ~o.canceled
       /\ 2 * o.progress_clicks >= o.required_clicks
       /\ refusal = "none"

\* C29: the single-active-order guarantee also holds when two take_order
\* actions for the same player overlap: if both run ensure_no_active_order
\* before either inserts its UserOrder, at most one of them ends with an
\* active assignment for that player
C29_OneActiveUnderOverlap == Cardinality(ActiveOrders(Db)) <= 1

C31_GainAtReset ==
    [][confirm_studio =>
          prestige'.reputation = prestige.reputation + PrestigeGain(user.balance)]_vars

\* C32: every assignment is created for an order whose min_level is <= the
\* player's level at the moment take_order creates it
C32_LevelGateAtTake ==
    [][\A o \in orders' \ orders :
          SEED_ORDERS[o.order_id].min_level <= user'.level]_vars

\* C33: with a constant passive rate and a total elapsed time within the
\* 12-hour cap, the sum of the amounts credited by several consecutive
\* apply_offline_income touchpoints never exceeds the amount a single
\* touchpoint at the end of the same interval would credit
C33_SplitNeverGains ==
    user.last_seen = now =>
       user.balance - NewUser.balance
          <= apply_offline_income(impl, [Db EXCEPT !.user = NewUser, !.log = << >>],
                                  now).gained

\* C34: get_user_stats excludes every buff whose expires_at <= now from the
\* computed stats and deletes exactly those buffs as a side effect of the
\* read; buffs with expires_at > now are counted and kept, so after the call
\* the player has no expired buff rows
C34_LazyExpiry ==
    [][(call_get_user_stats /\ impl = "mono") =>
          /\ buffs' = SelectSeq(buffs, LAMBDA b : b.expires_at = None \/ b.expires_at > now)
          /\ \A k \in DOMAIN buffs' :
                buffs'[k].expires_at = None \/ buffs'[k].expires_at > now
          /\ probe'.cp = mono_get_user_stats([Db EXCEPT !.buffs = buffs'], 0 - 1).cp]_vars

\* the read has deleted the buff that expired at this very instant and kept
\* and counted the one that expires later
C34_Witness ==
    /\ impl = "mono"
    /\ probe.cp # None
    /\ buffs = << Buff(900, Eff(2, 0, 0, 0, 0, 0)) >>
    /\ probe.cp >= 3

\* C35: for each user and a constant limit L, RateLimiter.allow returns True
\* for at most L calls whose timestamps lie within any window of 1.0 second;
\* a rejected call records no timestamp, and a call of one user leaves the
\* deque of every other user, and so what allow would answer them, unchanged.
C35_SlidingWindow ==
    /\ [](\A u \in LimiterUsers : \A a \in 0..MaxClock :
             Cardinality({k \in DOMAIN probe.accepted[u] :
                             /\ a <= probe.accepted[u][k]
                             /\ probe.accepted[u][k] <= a + TicksPerSecond})
                <= probe.limit[u])
    /\ [][call_allow =>
             /\ ~probe'.ok =>
                   \E k \in 0..Len(probe.events[probe'.caller]) :
                      probe'.events[probe'.caller]
                         = SubSeq(probe.events[probe'.caller], k + 1,
                                  Len(probe.events[probe'.caller]))
             /\ \A v \in LimiterUsers \ {probe'.caller} :
                   /\ probe'.events[v] = probe.events[v]
                   /\ allow(probe'.events, v, probe.limit[v], probe.clock).ok
                         = allow(probe.events, v, probe.limit[v], probe.clock).ok]_vars

\* user 1 is refused by a timestamp exactly one second old while user 2, who
\* was accepted before, is still within their own limit
C35_Witness ==
    /\ probe.caller = 1 /\ ~probe.ok
    /\ Len(probe.events[1]) = probe.limit[1]
    /\ probe.clock - probe.events[1][1] = TicksPerSecond
    /\ probe.accepted[2] # << >>
    /\ Len(probe.accepted[1]) > probe.limit[1]

\* C36: a player's level never decreases except through the prestige reset,
\* which sets it to 1: the XP penalty of a random event clamps the XP at 0 and
\* leaves the level, and add_xp_and_levelup only ever raises it.
C36_LevelOnlyFallsByReset ==
    [][\/ user'.level >= user.level
       \/ (confirm_studio /\ user'.level = 1)]_vars

\* the -100 XP penalty has been booked against a player above level 1 whose XP
\* it clamped at 0
C36_Witness ==
    /\ \E k \in DOMAIN log : log[k].type = "event_penalty" /\ log[k].amount = 0
    /\ user.xp = 0
    /\ user.level >= 2

\* C37: every assignment has required_clicks >= 1, whatever the base
\* requirement, the level and the click-requirement reduction (a summed
\* reduction of 100% or more included), so the progress percentage
\* progress_clicks / required_clicks is defined and lies in 0..100.
C37_RequiredAtLeastOne ==
    /\ probe.required_clicks # None => probe.required_clicks >= 1
    /\ probe.pct # None =>
          /\ probe.pct \in 0..100
          /\ probe.progress_clicks <= probe.required_clicks

\* a reduction of 125% on a requirement of 115 clicks still leaves an order of
\* one click, which one click completes
C37_Witness ==
    /\ probe.req_clicks_pct = 1250
    /\ required_clicks(probe.base_clicks, probe.level) = 115
    /\ probe.required_clicks = 1
    /\ probe.progress_clicks = 1
    /\ probe.pct = 100

\* C38: add_xp_and_levelup returns for every level >= 1 and every XP grant
\* >= 0; the loop runs exactly as many times as levels are gained, the XP
\* left is the XP given less the thresholds passed and is below the next
\* threshold; one grant of 5500 to a new player passes five thresholds and
\* raises the level from 1 to 6 in that one call.
C38_LoopTerminates ==
    /\ <>(probe.pc = "return")
    /\ [](probe.pc = "return" =>
             /\ probe.iterations = user.level - probe.start.level
             /\ user.xp = probe.start.xp + probe.xp_gain
                             - ThresholdsBetween(probe.start.level, user.level)
             /\ user.xp >= 0
             /\ user.xp < xp_to_level(user.level)
             /\ (/\ probe.start.level = 1
                 /\ probe.start.xp = 0
                 /\ probe.xp_gain = 5500) => (user.level = 6 /\ probe.iterations = 5))

\* the call with a grant of 5500 to a level-1 player has returned after five
\* iterations
C38_Witness ==
    /\ probe.pc = "return"
    /\ probe.start.level = 1
    /\ probe.xp_gain = 5500
    /\ probe.iterations = 5
    /\ user.level = 6

====
